---- MODULE Spec2Model ----
(***************************************************************************)
(* A model of cryptex: the signed-request protocol layer shared by the     *)
(* BTC-e and Cryptsy adapters (nonce counter, envelope unwrapping, the     *)
(* adapters' error translation) and the BTC-e transaction-history          *)
(* reconciler.  Python strings are sequences of one-character strings;     *)
(* JSON and Python values are records tagged by their single field name.   *)
(***************************************************************************)
EXTENDS Integers, Sequences, FiniteSets, TLC

VARIABLES constructed, classNonce, ownNonce, issued, seededAt, pc, call, last,
          hist, tradeHistory, parseTransactions, parseTrades,
          hpc, idx, transactions, trades, raised,
          exchangeMarkets, marketMap, mapWrites, timezone, mpc, mlast,
          calcIn, calcOut

protoVars == <<constructed, classNonce, ownNonce, issued, seededAt, pc, call, last>>
histVars == <<hist, tradeHistory, parseTransactions, parseTrades,
              hpc, idx, transactions, trades, raised>>
marketVars == <<exchangeMarkets, marketMap, mapWrites, timezone, mpc, mlast>>
calcVars == <<calcIn, calcOut>>
vars == <<protoVars, histVars, marketVars, calcVars>>

(***************************************************************************)
(* Bounds of the model.                                                    *)
(***************************************************************************)
NumThreads == 2
MaxCalls == 2
MaxSeed == 0

\* The adapters of the model: adapter 1 is a BTCE, adapter 2 a Cryptsy
Adapters == {1, 2}
Threads == 1..NumThreads

(***************************************************************************)
(* Python and JSON values.                                                 *)
(***************************************************************************)
Absent == [absent |-> TRUE]
PyNone == [none |-> TRUE]
JInt(n) == [int |-> n]
JStr(s) == [str |-> s]
JDict(d) == [dict |-> d]
PyList(items) == [list |-> items]

\* F(x), with x computed once and then passed on as a value
Let(x, F(_)) == CHOOSE r \in {F(v) : v \in {x}} : TRUE

IsAbsent(v) == "absent" \in DOMAIN v
IsInt(v) == "int" \in DOMAIN v
IsStr(v) == "str" \in DOMAIN v

Digits == {"0", "1", "2", "3", "4", "5", "6", "7", "8", "9"}
\* The characters \s of a regular expression takes: space, tab, newline,
\* vertical tab, form feed and carriage return
VerticalTab == ""
Spaces == {" ", "\t", "\n", VerticalTab, "\f", "\r"}
\* The characters int() of a unicode string skips: those and the four
\* separators U+001C..U+001F (the white space of unicode outside ASCII is not
\* in the alphabet of the model)
IntSpaces == Spaces \cup {"", "", "", ""}

RECURSIVE DigitsVal(_)
\* The number a string of digits writes
DigitsVal(s) ==
    LET DigitVal(c) ==
            CASE c = "0" -> 0 [] c = "1" -> 1 [] c = "2" -> 2 [] c = "3" -> 3
              [] c = "4" -> 4 [] c = "5" -> 5 [] c = "6" -> 6 [] c = "7" -> 7
              [] c = "8" -> 8 [] c = "9" -> 9
    IN IF s = <<>> THEN 0
       ELSE 10 * DigitsVal(SubSeq(s, 1, Len(s) - 1)) + DigitVal(s[Len(s)])

\* s without its leading and trailing white space
RECURSIVE Strip(_)
Strip(s) ==
    IF s = <<>> THEN s
    ELSE IF s[1] \in IntSpaces THEN Strip(Tail(s))
    ELSE IF s[Len(s)] \in IntSpaces THEN Strip(SubSeq(s, 1, Len(s) - 1))
    ELSE s

\* int(s) of a string: [ok, v, exc].  The string is stripped, takes an
\* optional sign, which white space may follow (none is left at the end of u
\* to strip a second time), and must then be all digits (ValueError otherwise)
IntOfStr(s) ==
    LET u == Strip(s)
        signed == u # <<>> /\ u[1] \in {"+", "-"}
        d == IF signed THEN Strip(Tail(u)) ELSE u
    IN IF d # <<>> /\ \A i \in 1..Len(d) : d[i] \in Digits
       THEN [ok |-> TRUE, exc |-> "",
             v |-> IF signed /\ u[1] = "-" THEN 0 - DigitsVal(d) ELSE DigitsVal(d)]
       ELSE [ok |-> FALSE, exc |-> "ValueError", v |-> 0]

(***************************************************************************)
(* Strings.                                                                *)
(***************************************************************************)
RECURSIVE RunLen(_, _, _)
\* The number of consecutive characters of s from position i on that are in S
RunLen(s, i, S) ==
    IF i > Len(s) \/ s[i] \notin S THEN 0 ELSE 1 + RunLen(s, i + 1, S)


StartsWith(s, i, lit) ==
    /\ i + Len(lit) - 1 <= Len(s)
    /\ \A k \in 1..Len(lit) : s[i + k - 1] = lit[k]

LowerSeq == <<"a", "b", "c", "d", "e", "f", "g", "h", "i", "j", "k", "l", "m",
              "n", "o", "p", "q", "r", "s", "t", "u", "v", "w", "x", "y", "z">>
UpperSeq == <<"A", "B", "C", "D", "E", "F", "G", "H", "I", "J", "K", "L", "M",
              "N", "O", "P", "Q", "R", "S", "T", "U", "V", "W", "X", "Y", "Z">>

\* s.upper() and s.lower(): each letter by its place in the alphabet, any
\* other character as it is
PyUpper(s) ==
    [i \in 1..Len(s) |->
        IF \E n \in 1..26 : LowerSeq[n] = s[i]
        THEN UpperSeq[CHOOSE n \in 1..26 : LowerSeq[n] = s[i]] ELSE s[i]]
PyLower(s) ==
    [i \in 1..Len(s) |->
        IF \E n \in 1..26 : UpperSeq[n] = s[i]
        THEN LowerSeq[CHOOSE n \in 1..26 : UpperSeq[n] = s[i]] ELSE s[i]]

RECURSIVE NatStr(_)
\* str(n) of a natural number
NatStr(n) ==
    LET DigitChar(k) ==
            CASE k = 0 -> "0" [] k = 1 -> "1" [] k = 2 -> "2" [] k = 3 -> "3"
              [] k = 4 -> "4" [] k = 5 -> "5" [] k = 6 -> "6" [] k = 7 -> "7"
              [] k = 8 -> "8" [] k = 9 -> "9"
    IN IF n < 10 THEN <<DigitChar(n)>>
       ELSE NatStr(n \div 10) \o <<DigitChar(n % 10)>>

(***************************************************************************)
(* Outcomes of a call: a returned value or a raised exception.             *)
(***************************************************************************)
Return(v) == [kind |-> "return", exc |-> "", msg |-> Absent, value |-> v]
Raise(e, m) == [kind |-> "raise", exc |-> e, msg |-> m, value |-> Absent]

(***************************************************************************)
(* decimal.Decimal: a value is coefficient c times ten to the exponent e,  *)
(* or one of the special values.  A JSON number with a fraction or an      *)
(* exponent is decoded with parse_float=Decimal, one without is an int.    *)
(***************************************************************************)
RECURSIVE Pow10(_)
Pow10(n) == IF n <= 0 THEN 1 ELSE 10 * Pow10(n - 1)

Dec(c, e) == [c |-> c, e |-> e]

\* A JSON number, by its literal
JNum(lit) == [num |-> lit]

\* The parser of decimal on value.strip(): [ok, neg, special, int, exp].  A
\* number is an optional sign, digits with an optional point (one digit at
\* least) and an optional exponent: int holds the digits without their leading
\* zeros, exp the exponent less the length of the fraction.  The special values
\* are Inf, Infinity, NaN and sNaN (int: the diagnostic digits that follow),
\* in either case of the letters
DecimalParts(text) ==
    Let(Strip(text), LAMBDA s :
    Let(IF s # <<>> /\ s[1] \in {"+", "-"} THEN 2 ELSE 1, LAMBDA b :
    Let(b = 2 /\ s[1] = "-", LAMBDA neg :
    Let(PyLower(SubSeq(s, b, Len(s))), LAMBDA body :
    Let(RunLen(s, b, Digits), LAMBDA ni :
    Let(IF StartsWith(s, b + ni, <<".">>) THEN 1 + RunLen(s, b + ni + 1, Digits) ELSE 0,
        LAMBDA dotnf :
    Let(IF dotnf > 0 THEN dotnf - 1 ELSE 0, LAMBDA nf :
    Let(b + ni + dotnf, LAMBDA e :
    Let(StartsWith(s, e, <<"e">>) \/ StartsWith(s, e, <<"E">>), LAMBDA hasE :
    Let(hasE /\ (StartsWith(s, e + 1, <<"+">>) \/ StartsWith(s, e + 1, <<"-">>)),
        LAMBDA esigned :
    Let(e + 1 + (IF esigned THEN 1 ELSE 0), LAMBDA eb :
    Let(IF hasE THEN RunLen(s, eb, Digits) ELSE 0, LAMBDA ne :
    Let(SubSeq(s, b, b + ni - 1) \o SubSeq(s, b + ni + 1, b + ni + nf), LAMBDA digits :
    Let(IF StartsWith(body, 1, <<"n", "a", "n">>) THEN 3
        ELSE IF StartsWith(body, 1, <<"s", "n", "a", "n">>) THEN 4 ELSE 0, LAMBDA nan :
    IF ni + nf > 0 /\ (hasE => ne > 0) /\ (IF hasE THEN eb + ne ELSE e) = Len(s) + 1
    THEN Let(RunLen(digits, 1, {"0"}), LAMBDA zeros :
         Let(DigitsVal(SubSeq(s, eb, eb + ne - 1)), LAMBDA expval :
         [ok |-> TRUE, neg |-> neg, special |-> "",
          int |-> IF zeros = Len(digits) THEN <<"0">>
                  ELSE SubSeq(digits, zeros + 1, Len(digits)),
          exp |-> (IF esigned /\ s[e + 1] = "-" THEN 0 - expval ELSE expval) - nf]))
    ELSE IF body \in {<<"i", "n", "f">>, <<"i", "n", "f", "i", "n", "i", "t", "y">>}
    THEN [ok |-> TRUE, neg |-> neg, special |-> "Infinity", int |-> <<>>, exp |-> 0]
    ELSE IF nan > 0 /\ RunLen(body, nan + 1, Digits) = Len(body) - nan
    THEN [ok |-> TRUE, neg |-> neg, special |-> IF nan = 3 THEN "NaN" ELSE "sNaN",
          int |-> SubSeq(body, nan + 1 + RunLen(body, nan + 1, {"0"}), Len(body)),
          exp |-> 0]
    ELSE [ok |-> FALSE, neg |-> FALSE, special |-> "", int |-> <<>>, exp |-> 0]))))))))))))))

\* Decimal(text): InvalidOperation when the parser does not take the text
DecimalOfText(s) ==
    Let(DecimalParts(s), LAMBDA p :
        IF ~p.ok THEN Raise("InvalidOperation", Absent)
        ELSE IF p.special # ""
        THEN Return([special |-> p.special, neg |-> p.neg, diag |-> p.int])
        ELSE Return(Dec(IF p.neg THEN 0 - DigitsVal(p.int) ELSE DigitsVal(p.int),
                        p.exp)))

\* Decimal.__str__ of Decimal(lit)
DecimalStr(lit) ==
    Let(DecimalParts(lit), LAMBDA p :
    LET sign == IF p.neg THEN <<"-">> ELSE <<>>
        int == p.int
        leftdigits == p.exp + Len(int)
        dotplace == IF p.exp <= 0 /\ leftdigits > 0 - 6 THEN leftdigits ELSE 1
        intpart == IF dotplace <= 0 THEN <<"0">>
                   ELSE IF dotplace >= Len(int)
                   THEN int \o [i \in 1..(dotplace - Len(int)) |-> "0"]
                   ELSE SubSeq(int, 1, dotplace)
        fracpart == IF dotplace <= 0
                    THEN <<".">> \o [i \in 1..(0 - dotplace) |-> "0"] \o int
                    ELSE IF dotplace >= Len(int) THEN <<>>
                    ELSE <<".">> \o SubSeq(int, dotplace + 1, Len(int))
        expstr == IF leftdigits = dotplace THEN <<>>
                  ELSE IF leftdigits - dotplace < 0
                       THEN <<"E", "-">> \o NatStr(dotplace - leftdigits)
                       ELSE <<"E", "+">> \o NatStr(leftdigits - dotplace)
    IN CASE p.special = "" -> sign \o intpart \o fracpart \o expstr
         [] p.special = "Infinity" ->
                sign \o <<"I", "n", "f", "i", "n", "i", "t", "y">>
         [] p.special = "NaN" -> sign \o <<"N", "a", "N">> \o int
         [] p.special = "sNaN" -> sign \o <<"s", "N", "a", "N">> \o int)

\* str(v) of a JSON value: a string is itself, a number without a fraction and
\* an exponent the int it decodes to, any other number the Decimal
PyStr(v) ==
    IF IsStr(v) THEN v.str
    ELSE IF IsInt(v)
    THEN (IF v.int < 0 THEN <<"-">> ELSE <<>>)
         \o NatStr(IF v.int < 0 THEN 0 - v.int ELSE v.int)
    ELSE IF \E i \in 1..Len(v.num) : v.num[i] \in {".", "e", "E"}
    THEN DecimalStr(v.num)
    ELSE Let(DecimalParts(v.num), LAMBDA p :
             (IF p.neg /\ p.int # <<"0">> THEN <<"-">> ELSE <<>>) \o p.int)

\* int(x): [ok, v, exc].  An int is itself, a string is parsed, a Decimal is
\* cut off towards zero; None, a dict and a list give TypeError
PyInt(x) ==
    IF IsInt(x) THEN [ok |-> TRUE, exc |-> "", v |-> x.int]
    ELSE IF IsStr(x) THEN IntOfStr(x.str)
    ELSE IF "num" \in DOMAIN x
    THEN Let(DecimalParts(x.num), LAMBDA p :
             [ok |-> TRUE, exc |-> "",
              v |-> (IF p.neg THEN 0 - 1 ELSE 1)
                    * (IF p.exp >= 0 THEN DigitsVal(p.int) * Pow10(p.exp)
                       ELSE DigitsVal(SubSeq(p.int, 1, Len(p.int) + p.exp)))])
    ELSE [ok |-> FALSE, exc |-> "TypeError", v |-> 0]

(***************************************************************************)
(* Python 2 dicts.  A dict is its table of slots (8 at first); a key goes  *)
(* to the slot its hash selects, or to the next free slot of its probe     *)
(* sequence, and the table is rebuilt four times as large when two thirds  *)
(* of the slots are filled.  Iterating over a dict hands out the filled    *)
(* slots in table order, so the order depends on the hashes of the keys    *)
(* and on the order of insertion, not on the keys' values.  A hash is 64   *)
(* bits, kept as 13 digits of base 32, lowest first (the 13th holds the 4  *)
(* highest bits).                                                          *)
(***************************************************************************)
\* ord(c).  Printable holds the printable characters of ASCII, from the space
\* (32) to the tilde (126); the grave accent (96) is not in the alphabet, the
\* empty string holds its place
Ord(c) ==
    LET Printable ==
            <<" ", "!", "\"", "#", "$", "%", "&", "'", "(", ")", "*", "+",
              ",", "-", ".", "/", "0", "1", "2", "3", "4", "5", "6", "7",
              "8", "9", ":", ";", "<", "=", ">", "?", "@", "A", "B", "C",
              "D", "E", "F", "G", "H", "I", "J", "K", "L", "M", "N", "O",
              "P", "Q", "R", "S", "T", "U", "V", "W", "X", "Y", "Z", "[",
              "\\", "]", "^", "_", "", "a", "b", "c", "d", "e", "f", "g",
              "h", "i", "j", "k", "l", "m", "n", "o", "p", "q", "r", "s",
              "t", "u", "v", "w", "x", "y", "z", "{", "|", "}", "~">>
    IN
    CASE c = "\t" -> 9 [] c = "\n" -> 10 [] c = VerticalTab -> 11
      [] c = "\f" -> 12 [] c = "\r" -> 13
      [] c = "" -> 28 [] c = "" -> 29 [] c = "" -> 30 [] c = "" -> 31
      [] OTHER -> 31 + (CHOOSE n \in 1..Len(Printable) : Printable[n] = c)

RECURSIVE BitXor(_, _)
\* a ^ b
BitXor(a, b) ==
    IF a = 0 THEN b
    ELSE IF b = 0 THEN a
    ELSE ((a + b) % 2) + 2 * BitXor(a \div 2, b \div 2)

RECURSIVE HashXor(_, _)
\* h ^ n, for a hash h and a natural number n
HashXor(h, n) ==
    IF h = <<>> THEN <<>>
    ELSE <<BitXor(h[1], n % 32)>> \o HashXor(Tail(h), n \div 32)

RECURSIVE HashTimes(_, _, _)
\* 1000003 * h in 64 bits: the digits from the j-th on, given the carry of the
\* digits below
HashTimes(h, j, carry) ==
    IF j > Len(h) THEN <<>>
    ELSE Let(1000003 * h[j] + carry, LAMBDA t :
             <<t % (IF j = Len(h) THEN 16 ELSE 32)>> \o HashTimes(h, j + 1, t \div 32))

RECURSIVE HashChars(_, _)
\* for each character c of s: x = (1000003 * x) ^ ord(c)
HashChars(s, x) ==
    IF s = <<>> THEN x
    ELSE HashChars(Tail(s), HashXor(HashTimes(x, 1, 0), Ord(s[1])))

\* hash(k) of a key.  A string: x = ord(s[0]) << 7, the characters are mixed
\* in, x ^= len(s), and a hash of -1 is made -2; the empty string hashes to 0.
\* An integer: n itself, in two's complement, and -1 is made -2
PyHash(k) ==
    LET zero == [j \in 1..13 |-> 0]
        ones(j) == IF j = 13 THEN 15 ELSE 31
    IN IF IsStr(k)
       THEN IF k.str = <<>> THEN zero
            ELSE Let(HashXor(HashChars(k.str, HashXor(zero, Ord(k.str[1]) * 128)),
                             Len(k.str)),
                     LAMBDA h : IF \A j \in 1..13 : h[j] = ones(j)
                                THEN [h EXCEPT ![1] = 30] ELSE h)
       ELSE IF k.int >= 0 THEN HashXor(zero, k.int)
       ELSE Let(HashXor(zero, 0 - k.int - (IF k.int = 0 - 1 THEN 0 ELSE 1)),
                LAMBDA h : [j \in 1..13 |-> ones(j) - h[j]])

RECURSIVE LowBits(_, _)
\* h & (size - 1), size a power of two
LowBits(h, size) ==
    IF h = <<>> THEN 0
    ELSE IF size <= 32 THEN h[1] % size
    ELSE h[1] + 32 * LowBits(Tail(h), size \div 32)

\* {}
EmptyDict == [size |-> 8, slots |-> [i \in 0..7 |-> Absent]]

\* The items of d in the order iteration hands them out
DictItems(d) ==
    SelectSeq([i \in 1..d.size |-> d.slots[i - 1]], LAMBDA e : ~IsAbsent(e))

RECURSIVE Probe(_, _, _, _)
\* The slot of key k: the one that holds k, or the first free one of the probe
\* sequence, which goes on from slot i with what is left of the hash
Probe(d, k, i, perturb) ==
    IF IsAbsent(d.slots[i]) \/ d.slots[i].key = k THEN i
    ELSE Probe(d, k, (5 * i + LowBits(perturb, d.size) + 1) % d.size,
               IF perturb = <<>> THEN perturb ELSE Tail(perturb))

\* The key k is put in its slot, without a look at the size of the table
DictPut(d, k, v) ==
    Let(PyHash(k), LAMBDA h :
        [d EXCEPT !.slots[Probe(d, k, LowBits(h, d.size), h)] =
                      [key |-> k, value |-> v]])

\* The table is rebuilt for minused keys: the items are put in a new table,
\* of the first size above minused, in iteration order
DictResize(d, minused) ==
    LET RECURSIVE GrowTo(_)
        GrowTo(size) == IF size > minused THEN size ELSE GrowTo(2 * size)
        RECURSIVE PutAll(_, _)
        PutAll(items, e) ==
            IF items = <<>> THEN e
            ELSE PutAll(Tail(items), DictPut(e, items[1].key, items[1].value))
    IN Let(GrowTo(8), LAMBDA size :
           PutAll(DictItems(d),
                  [size |-> size, slots |-> [i \in 0..(size - 1) |-> Absent]]))

\* k in d, and d[k]
DictHas(d, k) == \E i \in 0..(d.size - 1) : ~IsAbsent(d.slots[i]) /\ d.slots[i].key = k
DictGet(d, k) ==
    d.slots[CHOOSE i \in 0..(d.size - 1) :
                ~IsAbsent(d.slots[i]) /\ d.slots[i].key = k].value

\* d[k] = v on a dict
DictSet(d, k, v) ==
    IF DictHas(d, k) THEN DictPut(d, k, v)
    ELSE Let(DictPut(d, k, v), LAMBDA e :
             IF 3 * Len(DictItems(e)) >= 2 * e.size
             THEN DictResize(e, 4 * Len(DictItems(e))) ELSE e)

RECURSIVE DictOfKeys(_, _)
\* The dict a JSON object with the keys `keys`, in this order in the body,
\* decodes to (the values are left out)
DictOfKeys(keys, d) ==
    IF keys = <<>> THEN d
    ELSE DictOfKeys(Tail(keys), DictSet(d, JStr(keys[1]), PyNone))

(***************************************************************************)
(* The messages of the errors.                                             *)
(***************************************************************************)
EmptyResponse == <<"E", "m", "p", "t", "y", " ", "r", "e", "s", "p", "o", "n", "s", "e">>
NoOrders == <<"n", "o", " ", "o", "r", "d", "e", "r", "s">>
BadRequest == <<"b", "a", "d", " ", "r", "e", "q", "u", "e", "s", "t">>
InvalidNonceMsg == <<"i", "n", "v", "a", "l", "i", "d", " ", "n", "o", "n", "c", "e">>

(***************************************************************************)
(* Responses of the exchange: the transport fails, the body is not JSON,   *)
(* or the body decodes to a JSON value (null, or an object whose fields    *)
(* may each be absent).                                                    *)
(***************************************************************************)
Transport == [transport |-> TRUE]
NotJSON == [notjson |-> TRUE]
Json(content) == [json |-> content]
Obj(s, e, r, o, m) ==
    [obj |-> [success |-> s, error |-> e, ret |-> r, orderid |-> o, moreinfo |-> m]]

IsObj(content) == "obj" \in DOMAIN content
Has(content, k) == IsObj(content) /\ ~IsAbsent(content.obj[k])
\* "not content": None and the empty object are falsy
Falsy(content) ==
    \/ content = PyNone
    \/ IsObj(content) /\ \A k \in DOMAIN content.obj : IsAbsent(content.obj[k])

\* The keys of the ActiveOrders answers, in the order of the body
OrderIds == <<<<"o", "1">>, <<"o", "2">>>>
OneOrder == JDict(DictOfKeys(SubSeq(OrderIds, 1, 1), EmptyDict))
Responses ==
    {Transport, NotJSON, Json(PyNone),
     Json(Obj(PyNone, Absent, OneOrder, Absent, Absent)),
     Json(Obj(Absent, Absent, Absent, Absent, Absent)),
     Json(Obj(JInt(1), Absent, JDict(EmptyDict), Absent, Absent)),
     Json(Obj(JInt(1), Absent, OneOrder, Absent, Absent)),
     Json(Obj(JInt(1), Absent, JDict(DictOfKeys(OrderIds, EmptyDict)), Absent, Absent)),
     Json(Obj(JStr(<<"1">>), Absent, OneOrder, Absent, Absent)),
     Json(Obj(JInt(1), Absent, Absent, Absent, Absent)),
     Json(Obj(JStr(<<"1">>), Absent, Absent, JInt(7), JStr(<<>>))),
     Json(Obj(Absent, Absent, OneOrder, Absent, Absent)),
     Json(Obj(JInt(2), Absent, OneOrder, Absent, Absent)),
     Json(Obj(JInt(0), Absent, Absent, Absent, Absent)),
     Json(Obj(JInt(0), JStr(NoOrders), Absent, Absent, Absent)),
     Json(Obj(JInt(0), JStr(BadRequest), Absent, Absent, Absent)),
     Json(Obj(JStr(<<"0">>), JStr(BadRequest), Absent, Absent, Absent)),
     Json(Obj(JInt(0), JStr(InvalidNonceMsg), Absent, Absent, Absent))}

(***************************************************************************)
(* SingleEndpoint.perform_get_request, from the response on.               *)
(***************************************************************************)
perform_get_request(resp) ==
    IF resp = Transport THEN Raise("ConnectionError", Absent)
    ELSE IF resp = NotJSON THEN Raise("ValueError", Absent)
    ELSE LET content == resp.json IN
        IF Falsy(content) THEN Raise("APIException", JStr(EmptyResponse))
        ELSE IF Has(content, "success") /\ ~PyInt(content.obj.success).ok
            THEN Raise(PyInt(content.obj.success).exc, Absent)
        ELSE IF Has(content, "success") /\ PyInt(content.obj.success).v = 0
            THEN IF Has(content, "error")
                 THEN Raise("APIException", content.obj.error)
                 ELSE Raise("KeyError", Absent)
        ELSE IF Has(content, "ret") THEN Return(content.obj.ret)
        ELSE Return(content)

(***************************************************************************)
(* SignedSingleEndpoint: the nonce counter and perform_request.            *)
(***************************************************************************)
\* ownNonce[a] of an adapter without an instance attribute _get_nonce
NoOwn == Absent

\* Mutant of CountNext: the value is read but the increment is lost
CountNextLostUpdate(c) == [value |-> c, next |-> c]

\* itertools.count().next: hands out the counter's value and advances it
CountNext(c) == [value |-> c, next |-> c + 1]

\* self._get_nonce: the instance attribute set by _set_nonce when there is one,
\* the attribute of the class SignedSingleEndpoint otherwise
UsesOwn(own, a) == ~IsAbsent(own[a])
NextNonce(cls, own, a) == IF UsesOwn(own, a) THEN own[a].int ELSE cls

\* SignedSingleEndpoint.perform_request, from the response on
SignedPerformRequest(method, resp) ==
    IF resp = Transport THEN Raise("ConnectionError", Absent)
    ELSE IF resp = NotJSON THEN Raise("ValueError", Absent)
    ELSE LET content == resp.json IN
        IF ~IsObj(content) THEN Raise("TypeError", Absent)
        ELSE IF ~Has(content, "success") THEN Raise("KeyError", Absent)
        ELSE IF ~PyInt(content.obj.success).ok
            THEN Raise(PyInt(content.obj.success).exc, Absent)
        ELSE IF PyInt(content.obj.success).v # 1
            THEN IF Has(content, "error")
                 THEN Raise("APIException", content.obj.error)
                 ELSE Raise("KeyError", Absent)
        ELSE IF method = "createorder"
            THEN IF Has(content, "orderid") /\ Has(content, "moreinfo")
                 THEN Return([order |-> [orderid |-> content.obj.orderid,
                                         moreinfo |-> content.obj.moreinfo]])
                 ELSE Raise("KeyError", Absent)
        ELSE IF Has(content, "ret") THEN Return(content.obj.ret)
        ELSE Raise("KeyError", Absent)

\* Mutant of BTCEPerformRequest: the "no orders" error is not translated
BTCEPerformRequestNoTranslation(method, resp) == SignedPerformRequest(method, resp)

\* BTCE.perform_request: the "no orders" error becomes an empty dict
BTCEPerformRequest(method, resp) ==
    LET r == SignedPerformRequest(method, resp) IN
    IF r.kind = "raise" /\ r.exc = "APIException"
    THEN IF r.msg = JStr(NoOrders) THEN Return(JDict(EmptyDict)) ELSE r
    ELSE r

\* Cryptsy.perform_request
CryptsyPerformRequest(method, resp) == SignedPerformRequest(method, resp)

Kind(a) == IF a = 1 THEN "BTCE" ELSE "Cryptsy"

AdapterPerformRequest(kind, method, resp) ==
    IF kind = "BTCE" THEN BTCEPerformRequest(method, resp)
    ELSE CryptsyPerformRequest(method, resp)

\* A list with one element per item of the dict, in the order iteritems()
\* hands them out (one Order per open order, given by its order id)
KeysToList(d) == Let(DictItems(d), LAMBDA items : [i \in 1..Len(items) |-> items[i].key])

\* BTCE.get_my_open_orders
BTCEGetMyOpenOrders(resp) ==
    LET r == BTCEPerformRequest("ActiveOrders", resp) IN
    IF r.kind = "raise" THEN r
    ELSE IF "dict" \in DOMAIN r.value THEN Return(PyList(KeysToList(r.value.dict)))
    ELSE Raise("AttributeError", Absent)

\* BTCE.cancel_order and Cryptsy.cancel_order
CancelOrder(kind, resp) ==
    LET r == AdapterPerformRequest(kind,
                 IF kind = "BTCE" THEN "CancelOrder" ELSE "cancelorder", resp) IN
    IF r.kind = "raise" THEN r ELSE Return(PyNone)

\* The signed operations a caller invokes, with the method each one sends
OpsOf(kind) ==
    IF kind = "BTCE"
    THEN {<<"get_my_open_orders", "ActiveOrders">>, <<"perform_request", "getInfo">>}
    ELSE {<<"cancel_order", "cancelorder">>, <<"_create_order", "createorder">>}

OpResult(kind, op, method, resp) ==
    CASE op = "get_my_open_orders" -> BTCEGetMyOpenOrders(resp)
      [] op = "cancel_order" -> CancelOrder(kind, resp)
      [] OTHER -> AdapterPerformRequest(kind, method, resp)

(***************************************************************************)
(* The protocol layer as a state machine.  constructed: the adapters that  *)
(* exist; classNonce: the counter held by the class attribute              *)
(* SignedSingleEndpoint._get_nonce; ownNonce[a]: the counter held by a's   *)
(* instance attribute once _set_nonce has run (NoOwn before); issued[a]:   *)
(* (seededAt[a]: how many of them a had been given when _set_nonce last    *)
(* ran on it, 0 when it never did);                                        *)
(* the nonces a's calls were given, in order; pc/call: each thread's       *)
(* signed call in flight; last: the call that has just completed, until    *)
(* its outcome is handed to the caller.                                    *)
(***************************************************************************)
RECURSIVE SumLen(_, _)
SumLen(f, S) ==
    IF S = {} THEN 0
    ELSE LET a == CHOOSE x \in S : TRUE IN Len(f[a]) + SumLen(f, S \ {a})
\* The signed calls made so far, over all adapters
NumCalls(iss) == SumLen(iss, DOMAIN iss)

\* The nonce field of a call that is not a signed call
NoNonce == 0 - 1
NoCall ==
    [adapter |-> 0, signed |-> FALSE, op |-> "", method |-> "", nonce |-> NoNonce,
     posts |-> 0, response |-> Absent, outcome |-> Absent]
Idle == [adapter |-> 0, op |-> "", method |-> "", nonce |-> NoNonce]

HistIdle ==
    /\ hist = <<>> /\ tradeHistory = <<>>
    /\ parseTransactions = FALSE /\ parseTrades = FALSE
    /\ hpc = "idle" /\ idx = 0 /\ transactions = <<>> /\ trades = <<>>
    /\ raised = Absent

\* No Cryptsy market map in use: no call that needs it is running
NoMapCall == [op |-> "", arg |-> Absent, outcome |-> Absent, requests |-> 0]
MapIdle == [op |-> "", arg |-> Absent, await |-> "", requests |-> 0]
MarketIdle ==
    /\ exchangeMarkets = <<>>
    /\ marketMap = PyNone
    /\ mapWrites = 0
    /\ timezone = PyNone
    /\ mpc = [t \in Threads |-> MapIdle]
    /\ mlast = NoMapCall

\* No amount is being computed
CalcIdle == calcIn = Absent /\ calcOut = Absent

Init ==
    /\ constructed = {}
    /\ classNonce = 0
    /\ ownNonce = [a \in Adapters |-> NoOwn]
    /\ issued = [a \in Adapters |-> <<>>]
    /\ seededAt = [a \in Adapters |-> 0]
    /\ pc = [t \in Threads |-> "idle"]
    /\ call = [t \in Threads |-> Idle]
    /\ last = NoCall
    /\ HistIdle
    /\ MarketIdle
    /\ CalcIdle

\* BTCE.__init__ / Cryptsy.__init__: neither touches the nonce counter
Construct(a) ==
    /\ last = NoCall
    /\ a \notin constructed
    /\ constructed' = constructed \cup {a}
    /\ UNCHANGED <<classNonce, ownNonce, issued, pc, call, last, seededAt, histVars, marketVars, calcVars>>

\* _set_nonce(nonce): the adapter is given a counter of its own that starts
\* at nonce, whatever it has sent before (while a signed call can still follow)
SetNonce(a, n) ==
    /\ last = NoCall
    /\ a \in constructed
    /\ NumCalls(issued) < MaxCalls
    /\ ownNonce' = [ownNonce EXCEPT ![a] = JInt(n)]
    /\ seededAt' = [seededAt EXCEPT ![a] = Len(issued[a])]
    /\ UNCHANGED <<constructed, classNonce, issued, pc, call, last, histVars, marketVars, calcVars>>

\* perform_request up to the POST: get_request_params takes the nonce
BeginRequest(t, a, om) ==
    /\ last = NoCall
    /\ pc[t] = "idle"
    /\ a \in constructed
    /\ NumCalls(issued) < MaxCalls
    /\ om \in OpsOf(Kind(a))
    /\ LET nx == CountNext(NextNonce(classNonce, ownNonce, a)) IN
        /\ call' = [call EXCEPT ![t] = [adapter |-> a, op |-> om[1],
                                        method |-> om[2], nonce |-> nx.value]]
        /\ issued' = [issued EXCEPT ![a] = Append(@, nx.value)]
        /\ IF UsesOwn(ownNonce, a)
           THEN ownNonce' = [ownNonce EXCEPT ![a] = JInt(nx.next)] /\ classNonce' = classNonce
           ELSE classNonce' = nx.next /\ ownNonce' = ownNonce
    /\ pc' = [pc EXCEPT ![t] = "posting"]
    /\ UNCHANGED <<constructed, last, seededAt, histVars, marketVars, calcVars>>

\* Mutant of FinishRequest: a call that fails gives its nonce back
FinishRequestRollback(t, resp) ==
    /\ last = NoCall
    /\ pc[t] = "posting"
    /\ resp \in Responses
    /\ LET a == call[t].adapter
           out == OpResult(Kind(a), call[t].op, call[t].method, resp)
       IN
        /\ last' = [adapter |-> a, signed |-> TRUE, op |-> call[t].op,
                    method |-> call[t].method, nonce |-> call[t].nonce, posts |-> 1,
                    response |-> resp, outcome |-> out]
        /\ IF out.kind = "raise"
           THEN IF UsesOwn(ownNonce, a)
                THEN ownNonce' = [ownNonce EXCEPT ![a] = JInt(@.int - 1)] /\ classNonce' = classNonce
                ELSE classNonce' = classNonce - 1 /\ ownNonce' = ownNonce
           ELSE classNonce' = classNonce /\ ownNonce' = ownNonce
    /\ pc' = [pc EXCEPT ![t] = "idle"]
    /\ call' = [call EXCEPT ![t] = Idle]
    /\ UNCHANGED <<constructed, issued, seededAt, histVars, marketVars, calcVars>>

\* perform_request from the POST on: one request is sent, the response is
\* unwrapped and the adapter's operation returns or raises
FinishRequest(t, resp) ==
    /\ last = NoCall
    /\ pc[t] = "posting"
    /\ resp \in Responses
    /\ last' = [adapter |-> call[t].adapter, signed |-> TRUE, op |-> call[t].op,
                method |-> call[t].method, nonce |-> call[t].nonce, posts |-> 1,
                response |-> resp,
                outcome |-> OpResult(Kind(call[t].adapter), call[t].op,
                                     call[t].method, resp)]
    /\ pc' = [pc EXCEPT ![t] = "idle"]
    /\ call' = [call EXCEPT ![t] = Idle]
    /\ UNCHANGED <<constructed, classNonce, ownNonce, issued, seededAt, histVars, marketVars, calcVars>>

\* A public GET (BTCEPublic, CryptsyPublic): no nonce, no signature
PerformGetRequest(t, resp) ==
    /\ last = NoCall
    /\ pc[t] = "idle"
    /\ resp \in Responses
    /\ last' = [adapter |-> 0, signed |-> FALSE, op |-> "perform_get_request",
                method |-> "info", nonce |-> NoNonce, posts |-> 0,
                response |-> resp, outcome |-> perform_get_request(resp)]
    /\ UNCHANGED <<constructed, classNonce, ownNonce, issued, pc, call, seededAt, histVars, marketVars, calcVars>>

\* The caller receives the outcome of the completed call
Deliver ==
    /\ last # NoCall
    /\ last' = NoCall
    /\ UNCHANGED <<constructed, classNonce, ownNonce, issued, pc, call, seededAt, histVars, marketVars, calcVars>>

Next ==
    \/ \E a \in Adapters : Construct(a)
    \/ \E a \in Adapters, n \in 0..MaxSeed : SetNonce(a, n)
    \/ \E t \in Threads, a \in Adapters, om \in OpsOf("BTCE") \cup OpsOf("Cryptsy") :
           BeginRequest(t, a, om)
    \/ \E t \in Threads, resp \in Responses : FinishRequest(t, resp)
    \/ \E t \in Threads, resp \in Responses : PerformGetRequest(t, resp)
    \/ Deliver

Spec == Init /\ [][Next]_vars

(***************************************************************************)
(* The regular expressions of BTCE.__init__, matched as re.search matches  *)
(* them.  A pattern is a sequence of elements; Ends gives the positions an *)
(* element can end at when it starts at i (positions are 1-based, an end   *)
(* is the position after the last character taken).  A greedy element      *)
(* prefers its longest end, the lazy ".*?" its shortest, among those from  *)
(* which the rest of the pattern still matches.                            *)
(***************************************************************************)
RECURSIVE RunLenNot(_, _, _)
RunLenNot(s, i, S) ==
    IF i > Len(s) \/ s[i] \in S THEN 0 ELSE 1 + RunLenNot(s, i + 1, S)

\* An element of a pattern: its kind k, "float" (r_float), "code" ([A-Z0-9]+),
\* "digits" (\d+), "space" (\s+), "lazy" (.*?) or "lit" (the literal text
\* lit), and the name g of the group that captures it ("" for none)
El(k, lit, g) == [k |-> k, lit |-> lit, g |-> g]

\* The positions an element that starts at i can end before
Ends(s, i, el) ==
    LET \* r_float = (?:\d+)\.?(?:\d+)?
        n0 == RunLen(s, i, Digits)
        dot == n0 > 0 /\ i + n0 <= Len(s) /\ s[i + n0] = "."
        n1 == IF dot THEN RunLen(s, i + n0 + 1, Digits) ELSE 0
    IN
    CASE el.k = "float" ->
            {i + k : k \in 1..n0} \cup (IF dot THEN {i + n0 + 1 + k : k \in 0..n1} ELSE {})
      [] el.k = "code" -> {i + k : k \in 1..RunLen(s, i, Digits \cup
                {"A", "B", "C", "D", "E", "F", "G", "H", "I", "J", "K", "L", "M",
                 "N", "O", "P", "Q", "R", "S", "T", "U", "V", "W", "X", "Y", "Z"})}
      [] el.k = "digits" -> {i + k : k \in 1..RunLen(s, i, Digits)}
      [] el.k = "space" -> {i + k : k \in 1..RunLen(s, i, Spaces)}
      [] el.k = "lazy" -> {i + k : k \in 0..RunLenNot(s, i, {"\n"})}
      [] el.k = "lit" -> IF StartsWith(s, i, el.lit) THEN {i + Len(el.lit)} ELSE {}

RECURSIVE CanMatch(_, _, _, _)
\* The elements k.. of pat match s from position i on
CanMatch(s, i, pat, k) ==
    IF k > Len(pat) THEN TRUE
    ELSE \E j \in Ends(s, i, pat[k]) : CanMatch(s, j, pat, k + 1)

\* The end the matcher settles on for element k started at i
Pick(s, i, pat, k) ==
    Let({j \in Ends(s, i, pat[k]) : CanMatch(s, j, pat, k + 1)}, LAMBDA ok :
        IF pat[k].k = "lazy"
        THEN CHOOSE j \in ok : \A x \in ok : j <= x
        ELSE CHOOSE j \in ok : \A x \in ok : j >= x)

RECURSIVE GroupDict(_, _, _, _)
\* m.groupdict() of the match of pat[k..] that starts at i
GroupDict(s, i, pat, k) ==
    IF k > Len(pat) THEN [x \in {} |-> <<>>]
    ELSE Let(<<Pick(s, i, pat, k), k + 1>>, LAMBDA n :
         IF pat[k].g = "" THEN GroupDict(s, n[1], pat, n[2])
         ELSE (pat[k].g :> SubSeq(s, i, n[1] - 1)) @@ GroupDict(s, n[1], pat, n[2]))

\* pattern.search(s): the match at the leftmost position that has one
Search(pat, string) ==
    Let(string, LAMBDA s :
    Let({i \in 1..(Len(s) + 1) : CanMatch(s, i, pat, 1)}, LAMBDA starts :
        IF starts = {} THEN [matched |-> FALSE, groups |-> [x \in {} |-> <<>>]]
        ELSE Let(CHOOSE x \in starts : \A y \in starts : x <= y, LAMBDA i :
                 [matched |-> TRUE, groups |-> GroupDict(s, i, pat, 1)])))

r_order == <<El("lit", <<":", "o", "r", "d", "e", "r", ":">>, ""), El("digits", <<>>, "order_id"), El("lit", <<":">>, "")>>
r_fee == <<El("lit", <<"(", "-">>, ""), El("float", <<>>, "fee_percent"), El("lit", <<"%", ")">>, "")>>
r_amount_pair == <<El("float", <<>>, "amount"), El("space", <<>>, ""), El("code", <<>>, "base_currency")>>
r_price_pair == <<El("float", <<>>, "price"), El("space", <<>>, ""), El("code", <<>>, "counter_currency")>>
re_buy ==
    r_amount_pair \o <<El("space", <<>>, "")>> \o r_fee \o <<El("lazy", <<>>, "")>> \o r_order \o <<El("lazy", <<>>, "")>> \o r_price_pair
re_sell ==
    r_amount_pair \o <<El("lazy", <<>>, "")>> \o r_order \o <<El("lazy", <<>>, "")>> \o r_price_pair \o <<El("lazy", <<>>, "")>>
        \o <<El("float", <<>>, "total"), El("space", <<>>, ""), El("code", <<>>, ""), El("space", <<>>, "")>> \o r_fee

(***************************************************************************)
(* The arithmetic of decimal.Decimal on finite values.                     *)
(***************************************************************************)
\* Decimal * Decimal (exact within the context's 28 digits)
DecMul(a, b) == Dec(a.c * b.c, a.e + b.e)

\* Decimal / 100: the exact quotient, its exponent as near the dividend's as
\* the digits allow
DecDiv100(a) ==
    IF a.c % 100 = 0 THEN Dec(a.c \div 100, a.e)
    ELSE IF a.c % 10 = 0 THEN Dec(a.c \div 10, a.e - 1)
    ELSE Dec(a.c, a.e - 2)

\* DECIMAL_PRECISION = Decimal(10) ** -8
DECIMAL_PRECISION == Dec(1, 0 - 8)

\* common.quantize: decimal_value.quantize(DECIMAL_PRECISION) in the default
\* context (prec = 28, ROUND_HALF_EVEN). Decimal.quantize gives a zero the new
\* exponent whatever its own, and raises InvalidOperation when the digits of
\* the argument above 10^-8, len(_int) + _exp + 8 of them, are more than prec;
\* else it rescales, rounding half-to-even. (It also raises when rounding
\* carries into a 29th digit, which takes a coefficient of 28 nines and more.)
quantize(d) ==
    IF d.c = 0 THEN Return(Dec(0, DECIMAL_PRECISION.e))
    ELSE IF Len(NatStr(IF d.c < 0 THEN 0 - d.c ELSE d.c)) + d.e - DECIMAL_PRECISION.e > 28
    THEN Raise("InvalidOperation", Absent)
    ELSE IF d.e >= DECIMAL_PRECISION.e
    THEN Return(Dec(d.c * Pow10(d.e - DECIMAL_PRECISION.e), DECIMAL_PRECISION.e))
    ELSE LET p == Pow10(DECIMAL_PRECISION.e - d.e)
             q == d.c \div p
             r == d.c % p
         IN Return(Dec(IF 2 * r > p \/ (2 * r = p /\ q % 2 = 1) THEN q + 1 ELSE q,
                       DECIMAL_PRECISION.e))

(***************************************************************************)
(* str.find, as the withdrawal branch uses it.                              *)
(***************************************************************************)
\* s.find(sub): the 0-based index of the first occurrence, -1 when none
PyFind(s, sub) ==
    LET at == {i \in 1..(Len(s) + 1) : StartsWith(s, i, sub)} IN
    IF at = {} THEN 0 - 1 ELSE (CHOOSE i \in at : \A j \in at : i <= j) - 1

AddressMarker == <<"a", "d", "d", "r", "e", "s", "s", " ">>

(***************************************************************************)
(* BTCE._parse_transaction_history.  hist is the TransHistory feed and     *)
(* tradeHistory the TradeHistory feed, each a sequence of items in the     *)
(* order the dict hands them out.                                          *)
(***************************************************************************)
NoTradeIdFound == <<"N", "o", " ", "t", "r", "a", "d", "e", "_", "i", "d", " ", "f", "o", "u", "n", "d">>

\* BTCEBase._format_timestamp: the UTC datetime of the epoch seconds
format_timestamp(ts) == [utc |-> ts]

\* The filter of get_trade_id: the items with t's timestamp and m's order_id
Candidates(th, t, m) ==
    SelectSeq(th, LAMBDA v :
        /\ PyInt(v.trade.timestamp).v = PyInt(t.timestamp).v
        /\ PyInt(v.trade.order_id).v = IntOfStr(m.groups.order_id).v)

RECURSIVE Score(_, _, _)
\* The scoring loop of get_trade_id from (0-based) index i on
Score(lookin, lookfor, i) ==
    IF i >= Len(lookin) THEN 0
    ELSE IF i >= Len(lookfor) THEN i - 1
    ELSE IF lookin[i + 1] # lookfor[i + 1] THEN i
    ELSE Score(lookin, lookfor, i + 1)

NoBest == [has |-> FALSE, score |-> 0, tid |-> <<>>]

RECURSIVE BestTradeNoExactMatch(_, _, _, _)
\* Mutant of BestTrade: an equal amount string does not end the loop
BestTradeNoExactMatch(cands, k, lookin, best) ==
    IF k > Len(cands)
    THEN IF best.has THEN Return(JStr(best.tid))
         ELSE Raise("ValueError", JStr(NoTradeIdFound))
    ELSE Let(<<Score(lookin, PyStr(cands[k].trade.amount), 0), k + 1>>, LAMBDA n :
             IF ~best.has \/ n[1] > best.score
             THEN Let([has |-> TRUE, score |-> n[1], tid |-> cands[k].key],
                      LAMBDA better : BestTradeNoExactMatch(cands, n[2], lookin, better))
             ELSE BestTradeNoExactMatch(cands, n[2], lookin, best))

RECURSIVE BestTrade(_, _, _, _)
\* The loop over several candidates, from candidate k on
BestTrade(cands, k, lookin, best) ==
    IF k > Len(cands)
    THEN IF best.has THEN Return(JStr(best.tid))
         ELSE Raise("ValueError", JStr(NoTradeIdFound))
    ELSE Let(PyStr(cands[k].trade.amount), LAMBDA lookfor :
         IF lookfor = lookin THEN Return(JStr(cands[k].key))
         ELSE Let(<<Score(lookin, lookfor, 0), k + 1>>, LAMBDA n :
              IF ~best.has \/ n[1] > best.score
              THEN Let([has |-> TRUE, score |-> n[1], tid |-> cands[k].key],
                       LAMBDA better : BestTrade(cands, n[2], lookin, better))
              ELSE BestTrade(cands, n[2], lookin, best)))

\* Mutant of get_trade_id: no candidate gives None instead of an error
get_trade_idNoneWhenMissing(th, t, m) ==
    Let(Candidates(th, t, m), LAMBDA cands :
        IF Len(cands) = 1
        THEN IF IntOfStr(cands[1].key).ok THEN Return(JInt(IntOfStr(cands[1].key).v))
             ELSE Raise("ValueError", [invalid_literal |-> cands[1].key])
        ELSE IF Len(cands) > 1 THEN BestTrade(cands, 1, m.groups.amount, NoBest)
        ELSE Return(PyNone))

\* Mutant of get_trade_id: the only candidate's key is returned as it is
get_trade_idRawKey(th, t, m) ==
    Let(Candidates(th, t, m), LAMBDA cands :
        IF Len(cands) = 1 THEN Return(JStr(cands[1].key))
        ELSE IF Len(cands) > 1 THEN BestTrade(cands, 1, m.groups.amount, NoBest)
        ELSE Raise("ValueError", JStr(NoTradeIdFound)))

\* get_trade_id(t, m)
get_trade_id(th, t, m) ==
    Let(Candidates(th, t, m), LAMBDA cands :
        IF Len(cands) = 1
        THEN IF IntOfStr(cands[1].key).ok THEN Return(JInt(IntOfStr(cands[1].key).v))
             ELSE Raise("ValueError", [invalid_literal |-> cands[1].key])
        ELSE IF Len(cands) > 1 THEN BestTrade(cands, 1, m.groups.amount, NoBest)
        ELSE Raise("ValueError", JStr(NoTradeIdFound)))

\* Deposit(tid, datetime, currency, amount, '', 0)
DepositOf(tid, t) ==
    [type |-> "Deposit", transaction_id |-> tid,
     datetime |-> format_timestamp(t.timestamp), currency |-> t.currency,
     amount |-> t.amount, address |-> <<>>, fee |-> JInt(0)]

\* Withdrawal(tid, datetime, currency, amount, address), the address being
\* idx = desc.find('address '); desc[idx+8:] if idx, else ''
WithdrawalOf(tid, t) ==
    LET found == PyFind(t.desc, AddressMarker)
        address == IF found # 0
                   THEN SubSeq(t.desc, found + Len(AddressMarker) + 1, Len(t.desc))
                   ELSE <<>>
    IN [type |-> "Withdrawal", transaction_id |-> tid,
        datetime |-> format_timestamp(t.timestamp), currency |-> t.currency,
        amount |-> t.amount, address |-> address, fee |-> PyNone]

\* Buy(...) of a description re_buy matched, or what common.quantize raises
BuyOf(trade_id, t, m) ==
    LET amount == DecimalOfText(m.groups.amount).value IN
    Let(quantize(DecDiv100(DecMul(DecimalOfText(m.groups.fee_percent).value, amount))),
        LAMBDA fee :
    IF fee.kind = "raise" THEN fee ELSE
    Return(
    [type |-> "Buy", trade_id |-> trade_id,
     base_currency |-> m.groups.base_currency,
     counter_currency |-> m.groups.counter_currency,
     datetime |-> format_timestamp(t.timestamp),
     order_id |-> IntOfStr(m.groups.order_id).v,
     amount |-> amount,
     price |-> DecimalOfText(m.groups.price).value,
     fee |-> fee.value,
     fee_currency |-> m.groups.base_currency]))

\* Sell(...) of a description re_sell matched, or what common.quantize raises
SellOf(trade_id, t, m) ==
    LET amount == DecimalOfText(m.groups.amount).value
        price == DecimalOfText(m.groups.price).value
    IN
    Let(quantize(DecDiv100(DecMul(DecimalOfText(m.groups.fee_percent).value,
                                  DecMul(amount, price)))),
        LAMBDA fee :
    IF fee.kind = "raise" THEN fee ELSE
    Return(
    [type |-> "Sell", trade_id |-> trade_id,
     base_currency |-> m.groups.base_currency,
     counter_currency |-> m.groups.counter_currency,
     datetime |-> format_timestamp(t.timestamp),
     order_id |-> IntOfStr(m.groups.order_id).v,
     amount |-> amount,
     price |-> price,
     fee |-> fee.value,
     fee_currency |-> m.groups.counter_currency]))

\* One pass of the loop body over the item (tid, t): what it appends, or raises
ParseRecord(tid, t, pTransactions, pTrades, th) ==
    IF pTransactions /\ t.type \in {1, 2}
    THEN IF t.type = 1
         THEN [kind |-> "transaction", value |-> DepositOf(tid, t)]
         ELSE [kind |-> "transaction", value |-> WithdrawalOf(tid, t)]
    ELSE IF pTrades /\ t.type \in {4, 5}
    THEN Let(Search(re_buy, t.desc), LAMBDA mb :
         IF mb.matched
         THEN Let(get_trade_id(th, t, mb), LAMBDA id :
              IF id.kind = "raise" THEN [kind |-> "raise", value |-> id]
              ELSE Let(BuyOf(id.value, t, mb), LAMBDA b :
                   IF b.kind = "raise" THEN [kind |-> "raise", value |-> b]
                   ELSE [kind |-> "trade", value |-> b.value]))
         ELSE Let(Search(re_sell, t.desc), LAMBDA ms :
              IF ms.matched
              THEN Let(get_trade_id(th, t, ms), LAMBDA id :
                   IF id.kind = "raise" THEN [kind |-> "raise", value |-> id]
                   ELSE Let(SellOf(id.value, t, ms), LAMBDA b :
                        IF b.kind = "raise" THEN [kind |-> "raise", value |-> b]
                        ELSE [kind |-> "trade", value |-> b.value]))
              ELSE [kind |-> "skip", value |-> Absent]))
    ELSE [kind |-> "skip", value |-> Absent]

(***************************************************************************)
(* The feeds the reconciler is run on.                                     *)
(***************************************************************************)
MaxHist == 2
MaxTrades == 2

HistItem(tid, type, ts, desc, currency, amount) ==
    [tid |-> tid, t |-> [type |-> type, timestamp |-> JInt(ts), desc |-> desc,
                         currency |-> currency, amount |-> amount]]
TradeItem(key, ts, order_id, amount) ==
    [key |-> key, trade |-> [timestamp |-> JInt(ts), order_id |-> JInt(order_id),
                             amount |-> amount]]

BTC == <<"B", "T", "C">>
USD == <<"U", "S", "D">>
DescWithdraw == <<"B", "T", "C", " ", "W", "i", "t", "h", "d", "r", "a", "w", "a", "l", " ", "a", "d", "d", "r", "e", "s", "s", " ", "1", "A", "2", "b", "3", "C">>

HistItems ==
    {HistItem(<<"1">>, 1, 10, <<>>, BTC, JNum(<<"1", ".", "5">>)),
     HistItem(<<"2">>, 2, 11, DescWithdraw, BTC, JNum(<<"0", ".", "2", "5">>)),
     HistItem(<<"6">>, 2, 12,
              <<"a", "d", "d", "r", "e", "s", "s", " ", "1", "A", "2", "b",
                "3", "C">>,
              BTC, JNum(<<"0", ".", "2", "5">>)),
     HistItem(<<"7">>, 2, 13,
              <<"W", "i", "t", "h", "d", "r", "a", "w", "a", "l">>,
              USD, JNum(<<"3">>)),
     HistItem(<<"3">>, 4, 20,
              <<"0", ".", "5", " ", "B", "T", "C", " ", "(", "-", "0", ".",
                "2", "%", ")", " ", ":", "o", "r", "d", "e", "r", ":", "1",
                "2", "3", ":", " ", ".", ".", ".", " ", "1", "0", "0", " ",
                "U", "S", "D">>,
              BTC, JNum(<<"0", ".", "5">>)),
     HistItem(<<"4">>, 5, 21,
              <<"S", "e", "l", "l", " ", "0", ".", "5", " ", "B", "T", "C",
                " ", ":", "o", "r", "d", "e", "r", ":", "7", ":", " ", "b",
                "y", " ", "1", "0", "0", " ", "U", "S", "D", " ", "t", "o",
                "t", "a", "l", " ", "5", "0", " ", "U", "S", "D", " ", "(",
                "-", "0", ".", "2", "%", ")">>,
              USD, JNum(<<"5", "0">>)),
     HistItem(<<"5">>, 4, 22,
              <<"C", "a", "n", "c", "e", "l", " ", "o", "r", "d", "e", "r",
                " ", ":", "o", "r", "d", "e", "r", ":", "1", "2", "3", ":">>,
              BTC, JNum(<<"1">>))}

TradeItems ==
    {TradeItem(<<"1", "7">>, 20, 123, JStr(<<"0", ".", "5">>)),
     TradeItem(<<"t", "1">>, 20, 123, JStr(<<"0", ".", "5", "0", "0", "0", "0", "0", "0", "1">>)),
     TradeItem(<<"1", "8">>, 21, 7, JNum(<<"0", ".", "5">>)),
     TradeItem(<<"1", "9">>, 20, 9, JNum(<<"2">>)),
     TradeItem(<<"2", "0">>, 20, 123, JStr(<<"0", ".", "4">>))}

\* The sequences of at most n distinct members of S
RECURSIVE SeqsOf(_, _)
SeqsOf(S, n) ==
    IF n = 0 THEN {<<>>}
    ELSE LET shorter == SeqsOf(S, n - 1) IN
         shorter \cup {Append(q, x) : q \in {r \in shorter : Len(r) = n - 1},
                                      x \in S}
Feeds(S, n) ==
    {q \in SeqsOf(S, n) : \A i, j \in 1..Len(q) : i # j => q[i] # q[j]}

\* d.iteritems() of what perform_request returned: a feed, the decoded dict
\* given by its items in the order iteritems() hands them out, or the empty
\* dict BTCE.perform_request makes of "no orders"
IterItems(d) == IF "feed" \in DOMAIN d THEN d.feed ELSE DictItems(d.dict)

\* The responses to TradeHistory and TransHistory
FeedResponses(feeds) ==
    {Transport,
     Json(Obj(JInt(0), JStr(NoOrders), Absent, Absent, Absent)),
     Json(Obj(JInt(0), JStr(BadRequest), Absent, Absent, Absent))}
    \cup {Json(Obj(JInt(1), Absent, [feed |-> f], Absent, Absent)) : f \in feeds}

\* A BTCE exists and has made no signed call;
\* _parse_transaction_history(parse_transactions, parse_trades) is called
InitHist ==
    /\ constructed = {1} /\ classNonce = 0
    /\ ownNonce = [a \in Adapters |-> NoOwn]
    /\ issued = [a \in Adapters |-> <<>>]
    /\ seededAt = [a \in Adapters |-> 0]
    /\ pc = [t \in Threads |-> "idle"]
    /\ call = [t \in Threads |-> Idle]
    /\ last = NoCall
    /\ parseTransactions \in BOOLEAN
    /\ parseTrades \in BOOLEAN
    /\ hist = <<>> /\ tradeHistory = <<>>
    /\ hpc = "start" /\ idx = 0
    /\ transactions = <<>> /\ trades = <<>>
    /\ raised = Absent
    /\ MarketIdle
    /\ CalcIdle

\* self.perform_request(method, ...) of the reconciler, which runs on thread
\* 1, up to the POST: TradeHistory first when parse_trades, then TransHistory;
\* get_request_params takes the nonce
HistRequest ==
    /\ last = NoCall
    /\ hpc = "start" \/ hpc = "history"
    /\ pc[1] = "idle"
    /\ LET nx == CountNext(NextNonce(classNonce, ownNonce, 1)) IN
        /\ call' = [call EXCEPT ![1] = [adapter |-> 1,
                                        op |-> "_parse_transaction_history",
                                        method |-> IF hpc = "start" /\ parseTrades
                                                   THEN "TradeHistory" ELSE "TransHistory",
                                        nonce |-> nx.value]]
        /\ issued' = [issued EXCEPT ![1] = Append(@, nx.value)]
        /\ IF UsesOwn(ownNonce, 1)
           THEN ownNonce' = [ownNonce EXCEPT ![1] = JInt(nx.next)]
                /\ classNonce' = classNonce
           ELSE classNonce' = nx.next /\ ownNonce' = ownNonce
    /\ pc' = [pc EXCEPT ![1] = "posting"]
    /\ UNCHANGED <<constructed, seededAt, last, histVars, marketVars, calcVars>>

\* The answer to TradeHistory arrives: trade_history = ..., or the call raises
FetchTradeHistory(resp) ==
    /\ last = NoCall
    /\ hpc = "start"
    /\ pc[1] = "posting" /\ call[1].method = "TradeHistory"
    /\ resp \in FeedResponses(Feeds(TradeItems, MaxTrades))
    /\ \E r \in {BTCEPerformRequest("TradeHistory", resp)} :
           IF r.kind = "raise"
           THEN hpc' = "raised" /\ raised' = r /\ tradeHistory' = tradeHistory
           ELSE hpc' = "history" /\ raised' = raised
                /\ tradeHistory' = IterItems(r.value)
    /\ pc' = [pc EXCEPT ![1] = "idle"]
    /\ call' = [call EXCEPT ![1] = Idle]
    /\ UNCHANGED <<constructed, classNonce, ownNonce, issued, seededAt, last,
                   hist, parseTransactions, parseTrades, idx, transactions, trades,
                   marketVars, calcVars>>

\* The answer to TransHistory arrives: the feed the loop runs over, or the
\* call raises
FetchTransHistory(resp) ==
    /\ last = NoCall
    /\ pc[1] = "posting" /\ call[1].method = "TransHistory"
    /\ resp \in FeedResponses(Feeds(HistItems, MaxHist))
    /\ \E r \in {BTCEPerformRequest("TransHistory", resp)} :
           IF r.kind = "raise"
           THEN hpc' = "raised" /\ raised' = r /\ hist' = hist /\ idx' = idx
           ELSE hpc' = "loop" /\ raised' = raised
                /\ hist' = IterItems(r.value) /\ idx' = 1
    /\ pc' = [pc EXCEPT ![1] = "idle"]
    /\ call' = [call EXCEPT ![1] = Idle]
    /\ UNCHANGED <<constructed, classNonce, ownNonce, issued, seededAt, last,
                   tradeHistory, parseTransactions, parseTrades, transactions, trades,
                   marketVars, calcVars>>

\* While the reconciler has requests to make, another thread starts a signed
\* call on the same BTCE
ForeignRequest(t, om) ==
    /\ hpc \in {"start", "history"}
    /\ t # 1
    /\ BeginRequest(t, 1, om)

\* One iteration of the for loop
ParseStep ==
    /\ last = NoCall
    /\ hpc = "loop"
    /\ idx <= Len(hist)
    /\ \E r \in {ParseRecord(hist[idx].tid, hist[idx].t, parseTransactions,
                            parseTrades, tradeHistory)} :
        /\ transactions' = IF r.kind = "transaction"
                           THEN Append(transactions, r.value) ELSE transactions
        /\ trades' = IF r.kind = "trade" THEN Append(trades, r.value) ELSE trades
        /\ IF r.kind = "raise"
           THEN hpc' = "raised" /\ raised' = r.value /\ idx' = idx
           ELSE hpc' = hpc /\ raised' = raised /\ idx' = idx + 1
    /\ UNCHANGED <<hist, tradeHistory, parseTransactions, parseTrades, protoVars, marketVars, calcVars>>

\* return (transactions, trades)
ParseReturn ==
    /\ last = NoCall
    /\ hpc = "loop"
    /\ idx > Len(hist)
    /\ hpc' = "returned"
    /\ UNCHANGED <<hist, tradeHistory, parseTransactions, parseTrades, idx,
                   transactions, trades, raised, protoVars, marketVars, calcVars>>

NextHist ==
    \/ HistRequest
    \/ \E resp \in FeedResponses(Feeds(TradeItems, MaxTrades)) : FetchTradeHistory(resp)
    \/ \E resp \in FeedResponses(Feeds(HistItems, MaxHist)) : FetchTransHistory(resp)
    \/ ParseStep
    \/ ParseReturn
    \/ \E t \in Threads, om \in OpsOf("BTCE") : ForeignRequest(t, om)
    \/ \E t \in Threads \ {1}, resp \in {Transport, Json(Obj(JInt(1), Absent, JDict(EmptyDict), Absent, Absent))} :
           FinishRequest(t, resp)
    \/ Deliver

SpecHist == InitHist /\ [][NextHist]_vars

(***************************************************************************)
(* The market maps.  BTC-e names a market "btc_usd"; Cryptsy numbers its   *)
(* markets and the adapter keeps market_currency_map, a dict from market   *)
(* id to (primary, secondary), filled by the first call that needs it.     *)
(* exchangeMarkets is what the exchange answers getmarkets with;           *)
(* mapWrites counts the assignments to market_currency_map; timezone is    *)
(* the server's timezone the adapter caches (None until a getinfo answer   *)
(* is stored); mpc[t] is the call of thread t that waits for the answer to *)
(* the request mpc[t].await; mlast the call that has just completed.       *)
(***************************************************************************)
MaxMarkets == 2

\* s.split('_'): the pieces between the underscores
RECURSIVE PySplit(_, _)
PySplit(s, piece) ==
    IF s = <<>> THEN <<piece>>
    ELSE IF s[1] = "_" THEN <<piece>> \o PySplit(Tail(s), <<>>)
    ELSE PySplit(Tail(s), Append(piece, s[1]))

\* BTCEBase._pair_to_market: tuple([c.upper() for c in pair.split('_')])
pair_to_market(pair) ==
    Let(PySplit(pair, <<>>), LAMBDA pieces :
        [i \in 1..Len(pieces) |-> PyUpper(pieces[i])])

\* Mutant of market_to_pair: the first currency is joined to itself
market_to_pairFirstTwice(market) ==
    IF Len(market) < 2 THEN Raise("IndexError", Absent)
    ELSE Return(PyLower(market[1]) \o <<"_">> \o PyLower(market[1]))

\* BTCEBase._market_to_pair: '_'.join((market[0].lower(), market[1].lower()));
\* IndexError when the tuple has fewer than two members
market_to_pair(market) ==
    IF Len(market) < 2 THEN Raise("IndexError", Absent)
    ELSE Return(PyLower(market[1]) \o <<"_">> \o PyLower(market[2]))

\* The pair names BTCEPublic.get_info()['pairs'] holds
PairNames ==
    {<<"b", "t", "c", "_", "u", "s", "d">>, <<"l", "t", "c", "_", "b", "t", "c">>,
     <<"n", "v", "c", "_", "u", "s", "d">>}

LTC == <<"L", "T", "C">>

\* One market of the getmarkets response
Market(id, primary, secondary) ==
    [marketid |-> JStr(id), primary_currency_code |-> primary,
     secondary_currency_code |-> secondary]

PyTuple(a, b) == [tuple |-> <<a, b>>]

\* {m['marketid']: (m['primary_currency_code'], m['secondary_currency_code'])
\*  for m in markets}
RECURSIVE MapOfMarkets(_, _)
MapOfMarkets(markets, d) ==
    IF markets = <<>> THEN d
    ELSE MapOfMarkets(Tail(markets),
                      DictSet(d, markets[1].marketid,
                              PyTuple(markets[1].primary_currency_code,
                                      markets[1].secondary_currency_code)))


\* Cryptsy._get_market_id on the populated map d
get_market_id(d, pair) ==
    IF DictHas(d, pair) THEN Return(pair)
    ELSE Let(SelectSeq(DictItems(d), LAMBDA m : m.value = pair), LAMBDA market :
             IF market = <<>> THEN Raise("CryptsyException",
                        JStr(<<"M", "a", "r", "k", "e", "t", " ", "n", "o",
                               "t", " ", "f", "o", "u", "n", "d">>))
             ELSE Return(market[1].key))

\* Cryptsy._get_currencies on the populated map d
get_currencies(d, market_id) ==
    Let(get_market_id(d, market_id), LAMBDA id :
        IF id.kind = "raise" THEN id ELSE Return(DictGet(d, id.value)))

\* Cryptsy.get_markets on the populated map d
get_markets(d) ==
    Let(DictItems(d), LAMBDA items : Return(PyList([i \in 1..Len(items) |-> items[i].value])))

\* The days of month m of year y
DaysIn(y, m) ==
    IF m = 2 THEN (IF y % 4 = 0 /\ (y % 100 # 0 \/ y % 400 = 0) THEN 29 ELSE 28)
    ELSE IF m \in {4, 6, 9, 11} THEN 30 ELSE 31

\* datetime.datetime.strptime(s, "%Y-%m-%d %H:%M:%S"): four digits of the year,
\* then month, day, hour, minute and second of one or two digits each, "-"
\* and ":" between them and whitespace between day and hour (the day may be a
\* space and a digit); ValueError when s is not of this form, when data
\* remains or when the fields are no date and time
strptime(s) ==
    LET n == Len(s)
        IsD(i) == i <= n /\ s[i] \in Digits
        \* the one or two digits that start at i and end where a field ends
        W(i) == IF ~IsD(i) THEN 0 ELSE IF ~IsD(i + 1) THEN 1
                ELSE IF ~IsD(i + 2) THEN 2 ELSE 0
        V(i, w) == DigitsVal(SubSeq(s, i, i + w - 1))
        wm == W(6)
        pd == 7 + wm
        lead == pd <= n /\ s[pd] = " "
        wd == IF lead THEN (IF W(pd + 1) = 1 THEN 2 ELSE 0) ELSE W(pd)
        ps == pd + wd
        ws == RunLen(s, ps, Spaces)
        ph == ps + ws
        wh == W(ph)
        pM == ph + wh + 1
        wM == W(pM)
        pS == pM + wM + 1
        wS == W(pS)
        y == V(1, 4)
        mo == V(6, wm)
        d == IF lead THEN V(pd + 1, 1) ELSE V(pd, wd)
    IN IF /\ RunLen(s, 1, Digits) = 4 /\ n >= 5 /\ s[5] = "-"
          /\ wm > 0 /\ 6 + wm <= n /\ s[6 + wm] = "-"
          /\ wd > 0 /\ ws > 0
          /\ wh > 0 /\ ph + wh <= n /\ s[ph + wh] = ":"
          /\ wM > 0 /\ pM + wM <= n /\ s[pM + wM] = ":"
          /\ wS > 0 /\ pS + wS - 1 = n
          /\ mo \in 1..12 /\ d \in 1..31
          /\ V(ph, wh) <= 23 /\ V(pM, wM) <= 59 /\ V(pS, wS) <= 59
          /\ y >= 1 /\ d <= DaysIn(y, mo)
       THEN Return(<<y, mo, d, V(ph, wh), V(pM, wM), V(pS, wS)>>)
       ELSE Raise("ValueError", Absent)

\* pytz.timezone(self._get_info()['servertimezone']) on the answer to getinfo:
\* the zones EST and UTC, which have no daylight saving time
pytz_timezone(info) ==
    LET key == JStr(<<"s", "e", "r", "v", "e", "r", "t", "i", "m", "e", "z", "o", "n", "e">>) IN
    IF "dict" \notin DOMAIN info THEN Raise("TypeError", Absent)
    ELSE IF ~DictHas(info.dict, key) THEN Raise("KeyError", Absent)
    ELSE Let(DictGet(info.dict, key), LAMBDA z :
         IF ~IsStr(z) THEN Raise("AttributeError", Absent)
         ELSE IF z.str \in {<<"E", "S", "T">>, <<"U", "T", "C">>} THEN Return([zone |-> z.str])
         ELSE Raise("UnknownTimeZoneError", Absent))

\* cryptsy_time.normalize(cryptsy_time.localize(naive_time)).astimezone(pytz.utc)
\* of the naive time t = <<year, month, day, hour, minute, second>>: EST is
\* five hours behind UTC; OverflowError past the year 9999
astimezone_utc(t, tz) ==
    LET h == t[4] + (IF tz.zone = <<"E", "S", "T">> THEN 5 ELSE 0)
        d == IF h >= 24 THEN t[3] + 1 ELSE t[3]
        mo == IF d > DaysIn(t[1], t[2]) THEN t[2] + 1 ELSE t[2]
        y == IF mo > 12 THEN t[1] + 1 ELSE t[1]
    IN IF y > 9999 THEN Raise("OverflowError", Absent)
       ELSE Return([utc |-> <<y, IF mo > 12 THEN 1 ELSE mo,
                               IF d > DaysIn(t[1], t[2]) THEN 1 ELSE d,
                               h % 24, t[5], t[6]>>])

\* Mutant of format_trade: the fee currency is the base currency
format_tradeFeeInBase(d, tz, trade) ==
    Let(get_currencies(d, trade.marketid), LAMBDA c :
    IF c.kind = "raise" THEN c
    ELSE Let(strptime(trade.datetime), LAMBDA naive :
    IF naive.kind = "raise" THEN naive
    ELSE IF tz = PyNone THEN [kind |-> "await", value |-> "getinfo"]
    ELSE Let(<<astimezone_utc(naive.value, tz), DecimalOfText(trade.quantity),
               DecimalOfText(trade.tradeprice), DecimalOfText(trade.fee)>>, LAMBDA a :
    IF \E i \in 1..4 : a[i].kind = "raise"
    THEN a[CHOOSE i \in 1..4 : a[i].kind = "raise" /\ \A j \in 1..(i - 1) : a[j].kind # "raise"]
    ELSE Return([type |-> IF trade.tradetype = "Buy" THEN "Buy" ELSE "Sell",
                 trade_id |-> trade.tradeid,
                 base_currency |-> c.value.tuple[1],
                 counter_currency |-> c.value.tuple[2],
                 datetime |-> a[1].value,
                 order_id |-> trade.order_id,
                 amount |-> a[2].value,
                 price |-> a[3].value,
                 fee |-> a[4].value,
                 fee_currency |-> c.value.tuple[1]]))))

\* Cryptsy._format_trade on the populated map d, tz being self.timezone: the
\* currencies of the market, then the datetime, which needs the server's
\* timezone (a getinfo request when it is not cached), then the amounts
format_trade(d, tz, trade) ==
    Let(get_currencies(d, trade.marketid), LAMBDA c :
    IF c.kind = "raise" THEN c
    ELSE Let(strptime(trade.datetime), LAMBDA naive :
    IF naive.kind = "raise" THEN naive
    ELSE IF tz = PyNone THEN [kind |-> "await", value |-> "getinfo"]
    ELSE Let(<<astimezone_utc(naive.value, tz), DecimalOfText(trade.quantity),
               DecimalOfText(trade.tradeprice), DecimalOfText(trade.fee)>>, LAMBDA a :
    IF \E i \in 1..4 : a[i].kind = "raise"
    THEN a[CHOOSE i \in 1..4 : a[i].kind = "raise" /\ \A j \in 1..(i - 1) : a[j].kind # "raise"]
    ELSE Return([type |-> IF trade.tradetype = "Buy" THEN "Buy" ELSE "Sell",
                 trade_id |-> trade.tradeid,
                 base_currency |-> c.value.tuple[1],
                 counter_currency |-> c.value.tuple[2],
                 datetime |-> a[1].value,
                 order_id |-> trade.order_id,
                 amount |-> a[2].value,
                 price |-> a[3].value,
                 fee |-> a[4].value,
                 fee_currency |-> c.value.tuple[2]]))))

\* The trades of an allmytrades response
CryptsyTrade(type, marketid, datetime, quantity) ==
    [tradetype |-> type, marketid |-> JStr(marketid),
     tradeid |-> JStr(<<"9", "1">>), datetime |-> datetime,
     order_id |-> JStr(<<"4", "4">>), quantity |-> quantity,
     tradeprice |-> <<"1", "0", "0">>, fee |-> <<"0", ".", "1">>]

\* The calls that need the market map, each with its argument
MapCalls ==
    {[op |-> "get_markets", arg |-> Absent]}
    \cup {[op |-> "_get_market_id", arg |-> a] :
            a \in {PyTuple(LTC, BTC), PyTuple(USD, LTC), JStr(<<"2">>)}}
    \cup {[op |-> "_get_currencies", arg |-> a] :
            a \in {JStr(<<"3">>), JStr(<<"9">>), PyTuple(BTC, USD)}}
    \cup {[op |-> "round_trip", arg |-> a] :
            a \in {PyTuple(LTC, BTC), PyTuple(BTC, USD)}}
    \cup {[op |-> "_format_trade", arg |-> a] :
            a \in {CryptsyTrade("Buy", <<"3">>, <<"2", "0", "1", "4", "-", "0", "1", "-", "0", "2", " ", "0", "3", ":", "0", "4", ":", "0", "5">>, <<"0", ".", "5">>),
                   CryptsyTrade("Sell", <<"3">>, <<"2", "0", "1", "4", "-", "1", "2", "-", "3", "1", " ", "2", "1", ":", "0", "4", ":", "0", "5">>, <<"0", ".", "5">>),
                   CryptsyTrade("Buy", <<"3">>, <<"2", "0", "1", "4">>, <<"0", ".", "5">>),
                   CryptsyTrade("Sell", <<"3">>, <<"2", "0", "1", "4", "-", "0", "1", "-", "0", "2", " ", "0", "3", ":", "0", "4", ":", "0", "5">>, <<>>)}}

\* What the call gives once _get_market_currency_map() has handed out d, tz
\* being self.timezone; round_trip is the caller's
\* _get_currencies(_get_market_id(p))
MapCallResult(c, d, tz) ==
    CASE c.op = "get_markets" -> get_markets(d)
      [] c.op = "_get_market_id" -> get_market_id(d, c.arg)
      [] c.op = "_get_currencies" -> get_currencies(d, c.arg)
      [] c.op = "round_trip" ->
            Let(get_market_id(d, c.arg), LAMBDA id :
                IF id.kind = "raise" THEN id ELSE get_currencies(d, id.value))
      [] c.op = "_format_trade" -> format_trade(d, tz, c.arg)

\* The responses to getinfo
GetInfoResponses ==
    {Transport,
     Json(Obj(JInt(1), Absent, JDict(EmptyDict), Absent, Absent))}
    \cup {Json(Obj(JInt(1), Absent,
                   JDict(DictSet(EmptyDict, JStr(<<"s", "e", "r", "v", "e", "r", "t", "i", "m", "e", "z", "o", "n", "e">>), JStr(z))),
                   Absent, Absent)) :
            z \in {<<"E", "S", "T">>, <<"U", "T", "C">>, <<"M", "a", "r", "s">>}}

\* The responses to getmarkets
GetMarketsResponses(markets) ==
    {Transport,
     Json(Obj(JInt(0), JStr(BadRequest), Absent, Absent, Absent)),
     Json(Obj(JInt(1), Absent, PyList(markets), Absent, Absent))}

\* The markets get_markets() has reported to the caller: those of the
\* populated map
ReportedMarkets ==
    IF marketMap = PyNone THEN {}
    ELSE {m.value : m \in {marketMap.dict.slots[i] : i \in 0..(marketMap.dict.size - 1)}
                      \ {Absent}}

\* Two adapters exist, no call was made, the Cryptsy map is not populated
InitMarkets ==
    /\ constructed = Adapters /\ classNonce = 0
    /\ ownNonce = [a \in Adapters |-> NoOwn]
    /\ issued = [a \in Adapters |-> <<>>]
    /\ seededAt = [a \in Adapters |-> 0]
    /\ pc = [t \in Threads |-> "idle"]
    /\ call = [t \in Threads |-> Idle]
    /\ last = NoCall
    /\ HistIdle
    /\ exchangeMarkets \in Feeds({Market(<<"3">>, LTC, BTC), Market(<<"2">>, BTC, USD),
                                 Market(<<"5">>, LTC, BTC)}, MaxMarkets)
    /\ marketMap = PyNone
    /\ mapWrites = 0
    /\ timezone = PyNone
    /\ mpc = [t \in Threads |-> MapIdle]
    /\ mlast = NoMapCall
    /\ CalcIdle

\* The call op(arg) of thread t goes on after n requests: it completes with
\* out, or perform_request(out.value) takes its nonce and the request is sent
\* (getmarkets by _get_market_currency_map, getinfo by _get_timezone)
MapGoOn(t, op, arg, out, n) ==
    IF out.kind = "await"
    THEN /\ LET nx == CountNext(NextNonce(classNonce, ownNonce, 2)) IN
             /\ issued' = [issued EXCEPT ![2] = Append(@, nx.value)]
             /\ IF UsesOwn(ownNonce, 2)
                THEN ownNonce' = [ownNonce EXCEPT ![2] = JInt(nx.next)]
                     /\ classNonce' = classNonce
                ELSE classNonce' = nx.next /\ ownNonce' = ownNonce
         /\ mpc' = [mpc EXCEPT ![t] = [op |-> op, arg |-> arg, await |-> out.value,
                                       requests |-> n + 1]]
         /\ mlast' = mlast
    ELSE /\ mlast' = [op |-> op, arg |-> arg, outcome |-> out, requests |-> n]
         /\ mpc' = [mpc EXCEPT ![t] = MapIdle]
         /\ UNCHANGED <<classNonce, ownNonce, issued>>

\* A call that needs the map enters _get_market_currency_map: a populated map
\* is handed out and the call goes on; otherwise perform_request('getmarkets')
\* takes its nonce and the request is sent.  The round trip is made on a
\* market get_markets() gave the caller.
MapCall(t, c) ==
    /\ mlast = NoMapCall /\ hpc = "idle"
    /\ 2 \in constructed
    /\ mpc[t] = MapIdle
    /\ c \in MapCalls
    /\ c.op = "round_trip" => c.arg \in ReportedMarkets
    /\ IF marketMap # PyNone
       THEN \E out \in {MapCallResult(c, marketMap.dict, timezone)} :
               /\ out.kind = "await" => NumCalls(issued) < MaxCalls
               /\ MapGoOn(t, c.op, c.arg, out, 0)
       ELSE /\ NumCalls(issued) < MaxCalls
            /\ MapGoOn(t, c.op, c.arg, [kind |-> "await", value |-> "getmarkets"], 0)
    /\ UNCHANGED <<constructed, seededAt, pc, call, last, histVars, exchangeMarkets,
                   marketMap, mapWrites, timezone, calcVars>>

\* The getmarkets response arrives: an error leaves the call, a list of
\* markets is made the map and the call goes on with it
MapResponse(t, resp) ==
    /\ mlast = NoMapCall
    /\ mpc[t].await = "getmarkets"
    /\ resp \in GetMarketsResponses(exchangeMarkets)
    /\ \E r \in {CryptsyPerformRequest("getmarkets", resp)} :
          IF r.kind = "raise"
          THEN /\ MapGoOn(t, mpc[t].op, mpc[t].arg, r, mpc[t].requests)
               /\ UNCHANGED <<marketMap, mapWrites>>
          ELSE \E d \in {MapOfMarkets(r.value.list, EmptyDict)} :
               /\ marketMap' = JDict(d)
               /\ mapWrites' = mapWrites + 1
               /\ MapGoOn(t, mpc[t].op, mpc[t].arg, MapCallResult(mpc[t], d, timezone),
                          mpc[t].requests)
    /\ UNCHANGED <<constructed, seededAt, pc, call, last, histVars, exchangeMarkets,
                   timezone, calcVars>>

\* The getinfo response arrives: an error leaves the call, the server's
\* timezone is cached and the call goes on with it
InfoResponse(t, resp) ==
    /\ mlast = NoMapCall
    /\ mpc[t].await = "getinfo"
    /\ resp \in GetInfoResponses
    /\ \E r \in {CryptsyPerformRequest("getinfo", resp)} :
       \E z \in {IF r.kind = "raise" THEN r ELSE pytz_timezone(r.value)} :
          IF z.kind = "raise"
          THEN /\ MapGoOn(t, mpc[t].op, mpc[t].arg, z, mpc[t].requests)
               /\ timezone' = timezone
          ELSE /\ timezone' = z.value
               /\ MapGoOn(t, mpc[t].op, mpc[t].arg,
                          MapCallResult(mpc[t], marketMap.dict, z.value), mpc[t].requests)
    /\ UNCHANGED <<constructed, seededAt, pc, call, last, histVars, exchangeMarkets,
                   marketMap, mapWrites, calcVars>>

\* BTCE.get_markets reports p = _pair_to_market(name); the caller maps p to the
\* native name and back
BTCEMarketRoundTrip(name) ==
    /\ mlast = NoMapCall /\ hpc = "idle"
    /\ 1 \in constructed
    /\ name \in PairNames
    /\ \E p \in {pair_to_market(name)} :
          mlast' = [op |-> "btce_round_trip", arg |-> p,
                    outcome |-> Let(market_to_pair(p), LAMBDA n :
                                    IF n.kind = "raise" THEN n
                                    ELSE Return(pair_to_market(n.value))),
                    requests |-> 0]
    /\ UNCHANGED <<protoVars, histVars, exchangeMarkets, marketMap, mapWrites,
                   timezone, mpc, calcVars>>

\* The caller receives the outcome of the completed call
MapDeliver ==
    /\ mlast # NoMapCall
    /\ mlast' = NoMapCall
    /\ UNCHANGED <<protoVars, histVars, exchangeMarkets, marketMap, mapWrites,
                   timezone, mpc, calcVars>>

NextMarkets ==
    \/ \E t \in Threads, c \in MapCalls : MapCall(t, c)
    \/ \E t \in Threads, resp \in GetMarketsResponses(exchangeMarkets) :
           MapResponse(t, resp)
    \/ \E t \in Threads, resp \in GetInfoResponses : InfoResponse(t, resp)
    \/ \E name \in PairNames : BTCEMarketRoundTrip(name)
    \/ MapDeliver

SpecMarkets == InitMarkets /\ [][NextMarkets]_vars

\* The trades of both adapters: the BTC-e reconciler runs over its feeds, or
\* the Cryptsy adapter formats trades
SpecTrades == (InitHist \/ InitMarkets) /\ [][NextHist \/ NextMarkets]_vars

(***************************************************************************)
(* Amounts: common.quantize and the netto_amount of a transaction, applied *)
(* to the arguments calcIn; calcOut is what the call gave.                 *)
(***************************************************************************)
\* The most digits after the decimal point an argument has
MaxDigits == 10

Min(a, b) == IF a <= b THEN a ELSE b

\* Decimal + Decimal and Decimal - Decimal (exact within the context's 28
\* digits): the exponent is the smaller of the two
DecAdd(a, b) ==
    Let(Min(a.e, b.e), LAMBDA e :
        Dec(a.c * Pow10(a.e - e) + b.c * Pow10(b.e - e), e))
DecSub(a, b) ==
    Let(Min(a.e, b.e), LAMBDA e :
        Dec(a.c * Pow10(a.e - e) - b.c * Pow10(b.e - e), e))

\* bool(fee): None, the int 0 and a zero Decimal are false
Truthy(fee) ==
    IF fee = PyNone THEN FALSE
    ELSE IF IsInt(fee) THEN fee.int # 0
    ELSE fee.c # 0

\* Mutant of netto_amount: the withdrawal's fee is subtracted as well
netto_amountFeeSubtracted(type, amount, fee) ==
    IF type = "Transaction" THEN Raise("TypeError", Absent)
    ELSE IF Truthy(fee) THEN quantize(DecSub(amount, fee))
    ELSE Return(amount)

\* Transaction.netto_amount, Deposit.netto_amount, Withdrawal.netto_amount
\* (raise NotImplemented is a TypeError: NotImplemented is no exception)
netto_amount(type, amount, fee) ==
    IF type = "Transaction" THEN Raise("TypeError", Absent)
    ELSE IF Truthy(fee)
         THEN IF type = "Deposit" THEN quantize(DecSub(amount, fee))
              ELSE quantize(DecAdd(amount, fee))
    ELSE Return(amount)

\* What the calculations are run on.  The arguments of quantize: coefficient
\* times ten to minus the digits, and values of 10 and more, among them zeros
\* and values of 10^20 and more, which have over 28 digits above 10^-8 (a
\* result's coefficient is kept below 2^31); the transactions netto_amount is
\* called on
CalcArgs ==
    {[fn |-> "quantize", x |-> Dec(c, 0 - n)] :
        c \in {0 - 15, 0 - 5, 0 - 1, 0, 1, 4, 5, 6, 15}, n \in 0..MaxDigits}
    \cup {[fn |-> "quantize", x |-> Dec(c, 0 - n)] :
        c \in {0 - 25, 25, 35, 149, 150, 151, 250, 12345}, n \in 4..MaxDigits}
    \cup {[fn |-> "quantize", x |-> x] :
        x \in {Dec(1, 1), Dec(0 - 2, 1), Dec(0, 2), Dec(0, 30), Dec(1, 20),
               Dec(0 - 1, 20), Dec(12345, 16), Dec(5, 25)}}
    \cup
    {[fn |-> "netto_amount", type |-> ty, amount |-> a, fee |-> f] :
        ty \in {"Deposit", "Withdrawal", "Transaction"},
        a \in {Dec(15, 0 - 1), Dec(1, 0), Dec(1000000005, 0 - 9), Dec(123456789, 0 - 9)},
        f \in {PyNone, JInt(0), Dec(0, 0 - 8), Dec(1, 0 - 1), Dec(25, 0 - 2),
               Dec(1, 0 - 9), Dec(5, 0 - 9)}}

InitCalc ==
    /\ constructed = {} /\ classNonce = 0
    /\ ownNonce = [a \in Adapters |-> NoOwn]
    /\ issued = [a \in Adapters |-> <<>>]
    /\ seededAt = [a \in Adapters |-> 0]
    /\ pc = [t \in Threads |-> "idle"]
    /\ call = [t \in Threads |-> Idle]
    /\ last = NoCall
    /\ HistIdle /\ MarketIdle
    /\ calcIn \in CalcArgs
    /\ calcOut = Absent

\* common.quantize(x), and quantize(quantize(x)): the inner call's exception
\* when that raises
ApplyQuantize ==
    /\ calcOut = Absent
    /\ calcIn.fn = "quantize"
    /\ \E r \in {quantize(calcIn.x)} :
          calcOut' = [once |-> r,
                      twice |-> IF r.kind = "raise" THEN r ELSE quantize(r.value)]
    /\ UNCHANGED <<calcIn, protoVars, histVars, marketVars>>

\* t.netto_amount()
ApplyNettoAmount ==
    /\ calcOut = Absent
    /\ calcIn.fn = "netto_amount"
    /\ calcOut' = netto_amount(calcIn.type, calcIn.amount, calcIn.fee)
    /\ UNCHANGED <<calcIn, protoVars, histVars, marketVars>>

NextCalc == ApplyQuantize \/ ApplyNettoAmount

SpecCalc == InitCalc /\ [][NextCalc]_vars

(***************************************************************************)
(* Claims about the signed-request protocol layer.                         *)
(***************************************************************************)
IsFailureEnvelope(resp) ==
    /\ "json" \in DOMAIN resp
    /\ Has(resp.json, "success") /\ Has(resp.json, "error")
    /\ PyInt(resp.json.obj.success).ok /\ PyInt(resp.json.obj.success).v = 0

IsEmptyBody(resp) == "json" \in DOMAIN resp /\ Falsy(resp.json)

\* C1: for one adapter, every signed call takes exactly one nonce, the one the
\* adapter's counter holds, which is greater than every nonce the adapter's
\* earlier calls were given (since _set_nonce last gave it a counter, if it
\* did); the counter then stands one past it, and the end of a call, whatever
\* its outcome, leaves every counter where it was.
C1_Step ==
    \A t \in Threads :
        /\ (pc[t] = "idle" /\ pc'[t] = "posting") =>
              LET a == call'[t].adapter IN
              /\ call'[t].nonce = NextNonce(classNonce, ownNonce, a)
              /\ NextNonce(classNonce', ownNonce', a) = call'[t].nonce + 1
              /\ \A i \in (seededAt[a] + 1)..Len(issued[a]) :
                     issued[a][i] < call'[t].nonce
              /\ Len(issued'[a]) = Len(issued[a]) + 1
        /\ (pc[t] = "posting" /\ pc'[t] = "idle") =>
              /\ classNonce' = classNonce /\ ownNonce' = ownNonce
              /\ issued' = issued
C1_OneNoncePerCallIncreasing == [][C1_Step]_vars

\* C1 witness: an adapter's call has just failed after the adapter was given
\* two or more nonces, the failed call holding the latest of them
C1_Witness ==
    /\ last.signed /\ last.outcome.kind = "raise"
    /\ Len(issued[last.adapter]) >= 2
    /\ last.nonce = issued[last.adapter][Len(issued[last.adapter])]

\* C2 (as claimed): the counter belongs to the adapter: an adapter that was not
\* seeded is given 0 by its first signed call, and the nonces an adapter is
\* given (since _set_nonce last ran on it, if it did) are consecutive, as no
\* other adapter's call moves its counter.
C2_CounterOwnedByAdapter ==
    \A a \in Adapters :
        /\ (~UsesOwn(ownNonce, a) /\ issued[a] # <<>>) => issued[a][1] = 0
        /\ \A i \in (seededAt[a] + 1)..Len(issued[a]) :
               issued[a][i] = issued[a][seededAt[a] + 1] + i - seededAt[a] - 1

\* C3: the nonces the calls of one adapter obtained from its counter (since
\* _set_nonce last gave it one, if it did) are pairwise different, whichever
\* threads made the calls and however they interleave; so two signed calls in
\* flight at once through an adapter that was not given a new counter since
\* its first call never hold the same nonce.
C3_ConcurrentCallsDistinctNonces ==
    /\ \A a \in Adapters :
           \A i, j \in (seededAt[a] + 1)..Len(issued[a]) :
               i # j => issued[a][i] # issued[a][j]
    /\ \A t1, t2 \in Threads :
           (t1 # t2 /\ pc[t1] = "posting" /\ pc[t2] = "posting"
               /\ call[t1].adapter = call[t2].adapter
               /\ seededAt[call[t1].adapter] = 0)
           => call[t1].nonce # call[t2].nonce

\* C3 witness: two threads are in flight through the same adapter, which took
\* both nonces from the counter it has now
C3_Witness ==
    \E t1, t2 \in Threads :
        /\ t1 # t2 /\ pc[t1] = "posting" /\ pc[t2] = "posting"
        /\ call[t1].adapter = call[t2].adapter
        /\ seededAt[call[t1].adapter] = 0
        /\ Len(issued[call[t1].adapter]) >= 2

\* C4 (as claimed): a signed call whose nonce the exchange rejects ends by
\* raising NonceLimitReached, a kind of InvalidNonce, after its one request.
C4_NonceRejectionSignalled ==
    (last.signed /\ IsFailureEnvelope(last.response)
        /\ last.response.json.obj.error = JStr(InvalidNonceMsg))
    => /\ last.outcome.kind = "raise"
       /\ last.outcome.exc = "NonceLimitReached"
       /\ last.posts = 1

\* The envelope rule of the specification
EnvelopeRule(content) ==
    IF Has(content, "success") /\ PyInt(content.obj.success).ok
           /\ PyInt(content.obj.success).v = 0
    THEN Raise("APIException", content.obj.error)
    ELSE IF Has(content, "ret") THEN Return(content.obj.ret)
    ELSE Return(content)

\* C5 (as claimed): a public GET and a signed POST treat a non-empty response
\* object alike: success 0 raises APIException with the error message, else the
\* `return` field is the result when there is one and the body when there is
\* none.  (Taken on the calls that hand the protocol layer's result through:
\* the GET, and BTCE.perform_request where "no orders" is not involved.)
C5_SameEnvelopeRule ==
    (/\ last # NoCall
     /\ "json" \in DOMAIN last.response
     /\ IsObj(last.response.json) /\ ~Falsy(last.response.json)
     /\ (Has(last.response.json, "success") =>
            /\ PyInt(last.response.json.obj.success).ok
            /\ (PyInt(last.response.json.obj.success).v = 0 =>
                   /\ Has(last.response.json, "error")
                   /\ last.response.json.obj.error # JStr(NoOrders)))
     /\ last.op \in {"perform_get_request", "perform_request"})
    => last.outcome = EnvelopeRule(last.response.json)

\* C6: on the BTC-e adapter get_my_open_orders answers the failure envelope
\* "no orders" with an empty list; a failure envelope with any other message
\* makes any call raise APIException with that message.
C6_NoOrdersIsEmptyList ==
    (last # NoCall /\ IsFailureEnvelope(last.response)) =>
        LET e == last.response.json.obj.error IN
        /\ (last.op = "get_my_open_orders" /\ e = JStr(NoOrders))
              => last.outcome = Return(PyList(<<>>))
        /\ (e # JStr(NoOrders)) => last.outcome = Raise("APIException", e)

\* C6 witness: get_my_open_orders was answered "no orders"
C6_Witness ==
    /\ last.op = "get_my_open_orders"
    /\ IsFailureEnvelope(last.response)
    /\ last.response.json.obj.error = JStr(NoOrders)
    /\ last.outcome.kind = "return"

\* C7 (as claimed): an empty response body makes a GET and a signed POST alike
\* raise APIException('Empty response').
C7_EmptyResponseRaisesAPIException ==
    (last # NoCall /\ IsEmptyBody(last.response))
    => last.outcome = Raise("APIException", JStr(EmptyResponse))

(***************************************************************************)
(* Claims about the transaction-history reconciler.                        *)
(***************************************************************************)
\* The match of each description of the feed: re_buy's, else re_sell's
DescMatches ==
    {[desc |-> d,
      match |-> Let(Search(re_buy, d), LAMBDA mb :
                    IF mb.matched THEN [pattern |-> "buy", m |-> mb]
                    ELSE [pattern |-> "sell", m |-> Search(re_sell, d)])]
     : d \in {it.t.desc : it \in HistItems}}

\* The match of the description of history record i
MatchOf(i) == (CHOOSE r \in DescMatches : r.desc = hist[i].t.desc).match

\* Record i is handled as a trade: trades are parsed, its type is 4 or 5 and
\* its description matches a trade pattern
IsTradeRecord(i) ==
    /\ parseTrades /\ hist[i].t.type \in {4, 5}
    /\ MatchOf(i).m.matched

\* The trade-history entries with record i's (timestamp, order_id)
MatchesOf(i) == Candidates(tradeHistory, hist[i].t, MatchOf(i).m)

\* The loop body has run on record i: the loop went on, or stopped there
Processed(i) == idx > i \/ (idx = i /\ hpc = "raised")

\* The identifiers the trade-history feed gives, as strings and as integers
KnownTradeIds ==
    UNION {{JStr(tradeHistory[j].key)} \cup
           (IF IntOfStr(tradeHistory[j].key).ok
            THEN {JInt(IntOfStr(tradeHistory[j].key).v)} ELSE {})
           : j \in 1..Len(tradeHistory)}

\* What the loop body gives for record j is in the lists the call holds
OutputPresent(j) ==
    Let(ParseRecord(hist[j].tid, hist[j].t, parseTransactions, parseTrades,
                    tradeHistory), LAMBDA r :
        /\ r.kind = "transaction" =>
              \E k \in 1..Len(transactions) : transactions[k] = r.value
        /\ r.kind = "trade" => \E k \in 1..Len(trades) : trades[k] = r.value)

\* C8 (as claimed): when the reconciliation of one record fails, as no trade id
\* is derivable for a description that matched a trade pattern, the feed is not
\* given up: the call returns, and what every other record gives is in the
\* transactions and trades lists.
C8_FailedRecordDoesNotAbort ==
    \A i \in 1..Len(hist) :
        (IsTradeRecord(i) /\ MatchesOf(i) = <<>> /\ idx >= i /\ hpc # "loop") =>
            /\ hpc = "returned"
            /\ \A j \in 1..Len(hist) : j # i => OutputPresent(j)

\* C9: for a trade-typed record whose description matches a trade pattern and
\* whose (timestamp, order_id) no trade-history entry has, the recovery of the
\* trade id signals an error: the loop never goes past the record as if it were
\* not a trade, it stops there with ValueError('No trade_id found'), and no
\* trade is ever produced whose trade_id is not an identifier of the feed.
C9_NoMatchSignalsError ==
    /\ \A i \in 1..Len(hist) :
          (/\ idx > i \/ hpc = "returned" \/ (idx = i /\ hpc # "loop")
           /\ IsTradeRecord(i) /\ MatchesOf(i) = <<>>) =>
              /\ idx <= i
              /\ hpc # "returned"
              /\ (idx = i /\ hpc # "loop") =>
                    /\ hpc = "raised"
                    /\ raised = Raise("ValueError", JStr(NoTradeIdFound))
    /\ \A k \in 1..Len(trades) : trades[k].trade_id \in KnownTradeIds

\* C9 witness: the loop stopped at a matched trade record without a match in
\* the trade history, after it had produced a trade for an earlier record
C9_Witness ==
    /\ hpc = "raised" /\ idx \in 1..Len(hist)
    /\ IsTradeRecord(idx) /\ MatchesOf(idx) = <<>>
    /\ raised = Raise("ValueError", JStr(NoTradeIdFound))
    /\ trades # <<>>

\* Record i matches the buy pattern and exactly one trade-history entry has
\* its (timestamp, order_id)
IsSingleMatchBuy(i) ==
    /\ IsTradeRecord(i) /\ MatchOf(i).pattern = "buy"
    /\ Len(MatchesOf(i)) = 1

\* trades holds the Buy of record i with the trade id id: the parsed amount,
\* fee = quantize(fee_percent * amount / 100), fee_currency = base currency
HasBuy(i, id) ==
    Let(MatchOf(i).m.groups, LAMBDA g :
        \E k \in 1..Len(trades) :
            /\ trades[k].type = "Buy"
            /\ trades[k].trade_id = id
            /\ trades[k].datetime = format_timestamp(hist[i].t.timestamp)
            /\ trades[k].order_id = IntOfStr(g.order_id).v
            /\ trades[k].amount = DecimalOfText(g.amount).value
            /\ Return(trades[k].fee) =
                  quantize(DecDiv100(DecMul(DecimalOfText(g.fee_percent).value,
                                            DecimalOfText(g.amount).value)))
            /\ trades[k].fee_currency = g.base_currency)

\* C10 (as claimed): a record that matches the buy pattern and has exactly one
\* trade-history entry with its (timestamp, order_id) yields a Buy whose
\* trade_id is that entry's identifier as it appears in the feed.
C10_BuyTradeIdAsInFeed ==
    \A i \in 1..Len(hist) :
        (Processed(i) /\ IsSingleMatchBuy(i)) =>
            HasBuy(i, JStr(MatchesOf(i)[1].key))

\* C10 (amended): such a record yields a Buy whose trade_id is the integer the
\* entry's identifier denotes, whose amount is the parsed amount, whose fee is
\* quantize(fee_percent * amount / 100) and whose fee_currency is the base
\* currency; when the identifier is not an integer literal the loop stops at
\* the record with ValueError and no trade is produced for it.
C10_BuyTradeIdIsIntOfKey ==
    \A i \in 1..Len(hist) :
        (Processed(i) /\ IsSingleMatchBuy(i)) =>
            Let(MatchesOf(i)[1].key, LAMBDA key :
                IF IntOfStr(key).ok
                THEN idx > i /\ HasBuy(i, JInt(IntOfStr(key).v))
                ELSE /\ idx = i /\ hpc = "raised"
                     /\ raised = Raise("ValueError", [invalid_literal |-> key])
                     /\ \A k \in 1..Len(trades) :
                           trades[k].datetime # format_timestamp(hist[i].t.timestamp))

\* C10 witness: the buy "0.5 BTC (-0.2%) :order:123: ... 100 USD" was paired
\* with the only entry of its timestamp and order, "17": trade_id 17,
\* amount 0.5, fee 0.00100000 BTC
C10_Witness ==
    \E i \in 1..Len(hist) :
        /\ Processed(i) /\ IsSingleMatchBuy(i)
        /\ MatchesOf(i)[1].key = <<"1", "7">>
        /\ \E k \in 1..Len(trades) :
              /\ trades[k].type = "Buy"
              /\ trades[k].trade_id = JInt(17)
              /\ trades[k].amount = Dec(5, 0 - 1)
              /\ trades[k].fee = Dec(100000, 0 - 8)
              /\ trades[k].fee_currency = BTC

(***************************************************************************)
(* Claims about trades, amounts and the market maps.                       *)
(***************************************************************************)
\* The rule of the data model: a Buy pays its fee in the base currency, a
\* Sell in the counter currency
FeeCurrencyRule(tr) ==
    /\ tr.type = "Buy" => tr.fee_currency = tr.base_currency
    /\ tr.type = "Sell" => tr.fee_currency = tr.counter_currency

\* Cryptsy's _format_trade has just returned a trade
CryptsyTradeProduced ==
    mlast.op = "_format_trade" /\ mlast.outcome.kind = "return"

\* C11 (as claimed): every Trade an adapter produces, by the BTC-e reconciler
\* or by Cryptsy's trade formatting, has fee_currency = base_currency when it
\* is a Buy and fee_currency = counter_currency when it is a Sell.
C11_FeeCurrencyByTradeType ==
    /\ \A k \in 1..Len(trades) : FeeCurrencyRule(trades[k])
    /\ CryptsyTradeProduced => FeeCurrencyRule(mlast.outcome.value)

\* C11 (amended): every Trade of the BTC-e reconciler has fee_currency =
\* base_currency when it is a Buy and = counter_currency when it is a Sell;
\* every Trade of Cryptsy's trade formatting, Buy or Sell, has fee_currency =
\* counter_currency.
C11_FeeCurrencyPerAdapter ==
    /\ \A k \in 1..Len(trades) : FeeCurrencyRule(trades[k])
    /\ CryptsyTradeProduced =>
          /\ mlast.outcome.value.type \in {"Buy", "Sell"}
          /\ mlast.outcome.value.fee_currency = mlast.outcome.value.counter_currency
          /\ PyTuple(mlast.outcome.value.base_currency,
                     mlast.outcome.value.counter_currency)
                = DictGet(marketMap.dict, mlast.arg.marketid)

\* C11 witness: Cryptsy formatted a Buy on the market LTC/BTC, its fee in BTC
C11_Witness ==
    /\ CryptsyTradeProduced
    /\ mlast.outcome.value.type = "Buy"
    /\ mlast.outcome.value.base_currency = LTC
    /\ mlast.outcome.value.fee_currency = BTC

\* a and b are the same number
DecEq(a, b) ==
    IF a.c = 0 \/ b.c = 0 THEN a.c = b.c
    ELSE a.c * Pow10(a.e - Min(a.e, b.e)) = b.c * Pow10(b.e - Min(a.e, b.e))

\* netto_amount was called on a Deposit or a Withdrawal
NettoDone ==
    /\ calcOut # Absent /\ calcIn.fn = "netto_amount"
    /\ calcIn.type \in {"Deposit", "Withdrawal"}

\* C12 (as claimed): the net amount of a Deposit with fee f is amount - f, of a
\* Withdrawal amount + f, and the amount itself when there is no fee.
C12_NetAmountIsExact ==
    NettoDone =>
        /\ calcOut.kind = "return"
        /\ IF calcIn.fee = PyNone THEN DecEq(calcOut.value, calcIn.amount)
           ELSE Let(IF IsInt(calcIn.fee) THEN Dec(calcIn.fee.int, 0) ELSE calcIn.fee,
                    LAMBDA f :
                      IF calcIn.type = "Deposit"
                      THEN DecEq(calcOut.value, DecSub(calcIn.amount, f))
                      ELSE DecEq(calcOut.value, DecAdd(calcIn.amount, f)))

\* C12 (amended): the net amount of a Deposit with a fee f other than zero is
\* amount - f rounded half-to-even to 8 digits after the decimal point, of a
\* Withdrawal amount + f rounded so (hence amount - f and amount + f themselves
\* when these have at most 8 such digits); without a fee, or with a fee of
\* zero, it is the amount, not rounded.
C12_NetAmountIsQuantized ==
    NettoDone =>
        /\ calcOut.kind = "return"
        /\ IF calcIn.fee = PyNone \/ calcIn.fee = JInt(0) \/ calcIn.fee.c = 0
           THEN calcOut.value = calcIn.amount
           ELSE Let(IF calcIn.type = "Deposit" THEN DecSub(calcIn.amount, calcIn.fee)
                    ELSE DecAdd(calcIn.amount, calcIn.fee), LAMBDA exact :
                    /\ calcOut = quantize(exact)
                    /\ exact.e >= 0 - 8 => DecEq(calcOut.value, exact))

\* C12 witness: a Withdrawal of 1.000000005 with the fee 0.1 has the net amount
\* 1.10000000
C12_Witness ==
    /\ NettoDone /\ calcIn.type = "Withdrawal"
    /\ calcIn.amount = Dec(1000000005, 0 - 9) /\ calcIn.fee = Dec(1, 0 - 1)
    /\ calcOut = Return(Dec(110000000, 0 - 8))

\* quantize was called
QuantizeDone == calcOut # Absent /\ calcIn.fn = "quantize"

Abs(n) == IF n < 0 THEN 0 - n ELSE n

\* C13 (as claimed): for every finite decimal x quantize is idempotent,
\* quantize(quantize(x)) = quantize(x), and what it gives has exactly 8 digits
\* after the decimal point and is x rounded half-to-even: x itself when that
\* has at most 8 such digits, else a multiple of 10^-8 no further than half of
\* 10^-8 from x, the one with the even last digit when two are as near.
C13_QuantizeIdempotentHalfEven ==
    QuantizeDone =>
        /\ calcOut.once.kind = "return"
        /\ calcOut.twice = calcOut.once
        /\ calcOut.once.value.e = 0 - 8
        /\ IF calcIn.x.e >= 0 - 8 THEN DecEq(calcOut.once.value, calcIn.x)
           ELSE Let(Pow10(0 - 8 - calcIn.x.e), LAMBDA ulp :
                Let(Abs(calcIn.x.c - calcOut.once.value.c * ulp), LAMBDA err :
                    /\ 2 * err <= ulp
                    /\ 2 * err = ulp => calcOut.once.value.c % 2 = 0))

\* C14: a market p that get_markets() reports, mapped to the exchange's native
\* identifier and back, is p again: on BTC-e
\* _pair_to_market(_market_to_pair(p)) = p, on Cryptsy
\* _get_currencies(_get_market_id(p)) = p.
C14_MarketRoundTrip ==
    /\ mlast.op = "btce_round_trip" => mlast.outcome = Return(mlast.arg)
    /\ mlast.op = "round_trip" =>
          /\ mlast.arg \in ReportedMarkets
          /\ mlast.outcome = Return(mlast.arg)

\* C14 witness: the round trip of LTC/BTC was made on a Cryptsy map in which
\* two market ids have these currencies
C14_Witness ==
    /\ mlast.op = "round_trip" /\ mlast.arg = PyTuple(LTC, BTC)
    /\ mlast.arg \in ReportedMarkets
    /\ \E items \in {DictItems(marketMap.dict)} :
           Len(items) = 2 /\ items[1].value = items[2].value
    /\ mlast.outcome.kind = "return"

\* The threads whose getmarkets request is in flight
Populating == {t \in Threads : mpc[t].await = "getmarkets"}

\* C18 (as claimed): whatever the calls that need the market map and however
\* they interleave, the map of an adapter is populated by at most one
\* getmarkets request: never are two such requests in flight, the map is
\* assigned at most once, and no request is in flight once it is populated.
C18_SingleFlightPopulation ==
    /\ Cardinality(Populating) <= 1
    /\ mapWrites <= 1
    /\ marketMap # PyNone => Populating = {}

(***************************************************************************)
(* Claims about the choice among several trade-history entries and about   *)
(* the withdrawal address.                                                 *)
(***************************************************************************)
\* The entries with record i's (timestamp, order_id) when record i is handled
\* as a trade and there are several; lookin is the parsed amount text
SeveralOf(i) ==
    IF ~(parseTrades /\ hist[i].t.type \in {4, 5}) THEN [several |-> FALSE]
    ELSE Let(MatchOf(i).m, LAMBDA m :
         IF ~m.matched THEN [several |-> FALSE]
         ELSE Let(Candidates(tradeHistory, hist[i].t, m), LAMBDA cands :
              [several |-> Len(cands) > 1, cands |-> cands,
               lookin |-> m.groups.amount,
               order_id |-> IntOfStr(m.groups.order_id).v]))

\* The keys of the candidates with the amount string equal to lookin
ExactKeys(sv) ==
    {sv.cands[j].key : j \in {n \in 1..Len(sv.cands) :
                                PyStr(sv.cands[n].trade.amount) = sv.lookin}}

\* trades holds a trade of record i whose trade_id is one of ids
HasTradeWithId(i, sv, ids) ==
    \E k \in 1..Len(trades) :
        /\ trades[k].datetime = format_timestamp(hist[i].t.timestamp)
        /\ trades[k].order_id = sv.order_id
        /\ trades[k].trade_id \in ids

\* C15: when several trade-history entries have the record's
\* (timestamp, order_id) and one of them has the amount string equal to the
\* parsed amount text, the trade-id recovery gives that entry's id, in whatever
\* order the entries are scanned.
C15_ExactAmountWins ==
    \A i \in 1..Len(hist) :
        Processed(i) =>
            Let(SeveralOf(i), LAMBDA sv :
                (sv.several /\ ExactKeys(sv) # {}) =>
                    /\ idx > i
                    /\ HasTradeWithId(i, sv, {JStr(key) : key \in ExactKeys(sv)}))

\* C15 witness: the entry with the equal amount string was scanned after one
\* with another amount, and its id was given
C15_Witness ==
    \E i \in 1..Len(hist) :
        /\ Processed(i)
        /\ Let(SeveralOf(i), LAMBDA sv :
               /\ sv.several /\ ExactKeys(sv) # {}
               /\ sv.cands[1].key \notin ExactKeys(sv)
               /\ HasTradeWithId(i, sv, {JStr(key) : key \in ExactKeys(sv)}))

RECURSIVE CommonPrefix(_, _)
\* The length of the common leading-character prefix of a and b
CommonPrefix(a, b) ==
    IF a = <<>> \/ b = <<>> \/ a[1] # b[1] THEN 0
    ELSE 1 + CommonPrefix(Tail(a), Tail(b))

\* The key of the first candidate whose common prefix with lookin is longest
FirstBestKey(sv) ==
    Let([j \in 1..Len(sv.cands) |->
            CommonPrefix(sv.lookin, PyStr(sv.cands[j].trade.amount))], LAMBDA len :
        sv.cands[CHOOSE j \in 1..Len(len) :
                    /\ \A n \in 1..Len(len) : len[n] <= len[j]
                    /\ \A n \in 1..(j - 1) : len[n] < len[j]].key)

\* C16 (as claimed): when several entries match and none has the amount string
\* equal to the parsed amount text, the trade-id recovery gives the id of the
\* first entry, in feed order, whose amount string has the longest common
\* leading prefix with the parsed amount text.
C16_LongestCommonPrefixWins ==
    \A i \in 1..Len(hist) :
        Processed(i) =>
            Let(SeveralOf(i), LAMBDA sv :
                (sv.several /\ ExactKeys(sv) = {}) =>
                    /\ idx > i
                    /\ HasTradeWithId(i, sv, {JStr(FirstBestKey(sv))}))

\* The positions at which the marker "address " starts in desc
MarkerAt(desc) ==
    {i \in 1..Len(desc) :
        /\ i + Len(AddressMarker) - 1 <= Len(desc)
        /\ SubSeq(desc, i, i + Len(AddressMarker) - 1) = AddressMarker}

\* C17 (as claimed): the address of the Withdrawal made of a withdrawal record
\* of the history feed is what follows the marker "address " in the record's
\* description, and the empty string when the description does not contain
\* the marker.
C17_AddressFollowsMarker ==
    \A i \in 1..Len(hist) :
        (Processed(i) /\ parseTransactions /\ hist[i].t.type = 2) =>
            \E k \in 1..Len(transactions) :
                /\ transactions[k].type = "Withdrawal"
                /\ transactions[k].transaction_id = hist[i].tid
                /\ Let(MarkerAt(hist[i].t.desc), LAMBDA at :
                       IF at = {} THEN transactions[k].address = <<>>
                       ELSE Let(CHOOSE a \in at : \A b \in at : a <= b, LAMBDA first :
                                transactions[k].address
                                  = SubSeq(hist[i].t.desc, first + Len(AddressMarker),
                                           Len(hist[i].t.desc))))

====
